---- MODULE Spec2Model ----
(***************************************************************************)
(* State-machine model of the Privy privacy-decision engine                *)
(* (rajatsinghten/Privy, server/app): the capability token manager, the    *)
(* privacy budget ledger, the RTBF orchestrator, the consent registry, the *)
(* policy / risk / legal-compliance checks and the two access-decision     *)
(* routes that combine them.                                               *)
(*                                                                         *)
(* Conventions                                                             *)
(*  - Time is an integer number of clock ticks, TicksPerSecond ticks to a  *)
(*    second, so that both the microsecond-precise comparisons of the code *)
(*    (datetime > datetime) and the whole-second comparisons of the JWT    *)
(*    library (exp claim) are represented.  A handler runs at one instant. *)
(*  - Epsilon amounts (Python floats) are integers, 10000 to one epsilon. *)
(*  - Python's None is the string "None" in set/str positions and NoTime   *)
(*    in datetime positions.                                               *)
(*  - The services are module-level singletons called from handlers that   *)
(*    never await: every handler is one atomic action, except              *)
(*    trigger_rtbf, which is split at its handler invocations so that the  *)
(*    order of its effects is observable.                                  *)
(***************************************************************************)
EXTENDS Integers, Sequences, FiniteSets, TLC

\* ------------------------------------------------------------------ bounds
\* Clock resolution of the model: ticks per second.
TicksPerSecond == 2
\* The token scenarios run for at most this many ticks.
MaxTick == 4
\* At most this many tokens are issued.
MaxTokens == 2
\* max_uses is drawn from -1 .. MaxUses (the request schema accepts any int).
MaxUses == 2
\* max_ttl_seconds is drawn from 0 .. MaxTtl.
MaxTtl == 1

\* The budget scenarios run for at most this many half days.
MaxHalfDays == 3
\* At most this many entries are logged in the budget query history.
MaxHistory == 3

\* At most this many RTBF requests are on record.
MaxRequests == 2
\* The RTBF scenarios run for at most this many ticks.
MaxRtbfTick == 1
\* At most this many access decisions are returned.
MaxDecisions == 3
\* At most this many RTBF requests are triggered between access decisions.
MaxDecisionRequests == 1
\* At most this many requests are accepted by the server at once.
MaxConcurrent == 3
\* At most this many attempts are logged on top of a long history.
MaxAppends == 2
\* Risk scores are drawn from this many thousandths below 0 to as many above 1.
ScoreMargin == 5

VARIABLES
    now,               \* datetime.utcnow(), in ticks
    active_tokens,     \* SelfDestructingTokenManager.active_tokens
    revoked_tokens,    \* SelfDestructingTokenManager.revoked_tokens
    issued_jwts,       \* the signed tokens handed out to clients so far
    valid_count,       \* history: per token id, number of valid=true results
    completed_tokens,  \* history: ids of the tokens of a task at its complete_task
    tok_result,        \* the last token-manager call and what it returned
    budgets,           \* PrivacyBudgetManager.budgets
    query_history,     \* PrivacyBudgetManager.query_history
    blocked_requesters,\* PrivacyBudgetManager.blocked_requesters
    bud_result,        \* the last budget-manager call and what it returned
    active_requests,   \* RTBFTriggerService.active_requests
    purge_records,     \* RTBFTriggerService.purge_records
    blocked_subjects,  \* RTBFTriggerService.blocked_subjects
    rtbf_call,         \* the trigger_rtbf call in progress: position and locals
    rtbf_result,       \* what the last trigger_rtbf call returned
    consents,          \* ConsentManager.consents
    compliance_log,    \* LegalComplianceEngine.compliance_log
    audit_log,         \* the audit_logs table written by AuditLogger
    decisions_returned,\* history: number of access decisions returned
    dec_result,        \* the last access-decision request and its response
    calc_call,         \* the last call of a stateless service function: its inputs
    calc_result,       \* what that call returned
    calls              \* HTTP requests accepted by the server: pending or answered

tokenVars ==
    <<active_tokens, revoked_tokens, issued_jwts, valid_count, completed_tokens,
      tok_result>>
budgetVars == <<budgets, query_history, blocked_requesters, bud_result>>
rtbfVars == <<active_requests, purge_records, blocked_subjects, rtbf_call, rtbf_result>>
decisionVars == <<consents, compliance_log, audit_log, decisions_returned, dec_result>>
calcVars == <<calc_call, calc_result>>
concVars == <<calls>>

NoTime == -1

\* ------------------------------------------------------------------ clock
FloorSeconds(t) == t \div TicksPerSecond
Seconds(n) == n * TicksPerSecond

\* ---------------------------------------------------------- token manager
Tasks == {"task_a", "task_b"}
MaxUsesChoices == (-1) .. MaxUses
TtlChoices == 0 .. MaxTtl

\* secrets.token_urlsafe(32): a fresh id on every call.
FreshTokenId == Cardinality(issued_jwts) + 1

\* jose.jwt.encode: a datetime "exp" claim is stored as whole seconds.
JwtEncode(token_id, task_id, expires_at, max_uses) ==
    [token_id |-> token_id, task_id |-> task_id,
     exp |-> FloorSeconds(expires_at), max_uses |-> max_uses, sig_ok |-> TRUE]

\* A presented token: one that was issued, or one whose payload or signature
\* was altered after signing (the signature no longer verifies).
Tampered(jwt) == [jwt EXCEPT !.sig_ok = FALSE]
PresentedTokens == issued_jwts \cup {Tampered(j) : j \in issued_jwts}

\* Mutant of JwtDecodeOk: the signature is not verified.
JwtDecodeOk_unverified(jwt) == ~(jwt.exp < FloorSeconds(now))

\* jose.jwt.decode: raises JWTError on a bad signature, and
\* ExpiredSignatureError (a JWTError) when exp < now, both in whole seconds.
JwtDecodeOk(jwt) == jwt.sig_ok /\ ~(jwt.exp < FloorSeconds(now))

TokenRecord(task_id, ttl, max_uses) ==
    [task_id |-> task_id, issued_at |-> now, expires_at |-> now + Seconds(ttl),
     max_uses |-> max_uses, current_uses |-> 0, status |-> "active",
     access_log |-> << >>]

NoTokResult ==
    [op |-> "none", token_id |-> 0, task_id |-> "None", valid |-> FALSE,
     destroyed |-> FALSE, outcome |-> "none", sig_ok |-> FALSE, pre_active |-> FALSE,
     pre_revoked |-> FALSE, pre_uses |-> 0, post_uses |-> 0,
     max_uses |-> 0, expires_at |-> NoTime, at |-> NoTime]

generate_task_token(task_id, ttl, max_uses) ==
    /\ Cardinality(issued_jwts) < MaxTokens
    /\ LET id == FreshTokenId
           rec == TokenRecord(task_id, ttl, max_uses)
       IN /\ active_tokens' = [t \in DOMAIN active_tokens \cup {id} |->
                                  IF t = id THEN rec ELSE active_tokens[t]]
          /\ issued_jwts' = issued_jwts \cup
                               {JwtEncode(id, task_id, rec.expires_at, max_uses)}
          /\ valid_count' = [t \in DOMAIN valid_count \cup {id} |->
                                IF t = id THEN 0 ELSE valid_count[t]]
          /\ tok_result' = [NoTokResult EXCEPT !.op = "generate", !.token_id = id,
                               !.task_id = task_id,
                               !.max_uses = max_uses]
    /\ UNCHANGED <<revoked_tokens, completed_tokens, now>>

\* Mutant of DestroyedActive: the record is not deleted from active_tokens.
DestroyedActive_kept(tokens, id) == tokens

\* _destroy_token: the active map and the revoked set after destroying id.
DestroyedActive(tokens, id) == [t \in DOMAIN tokens \ {id} |-> tokens[t]]
DestroyedRevoked(tokens, revoked, id) ==
    IF id \in DOMAIN tokens THEN revoked \cup {id} ELSE revoked

\* The branch validate_and_consume takes for a presented token.
ValidateOutcome(jwt) ==
    IF ~JwtDecodeOk(jwt) THEN "jwt_error"
    ELSE IF jwt.token_id \in revoked_tokens THEN "revoked"
    ELSE IF jwt.token_id \notin DOMAIN active_tokens THEN "not_found"
    ELSE IF now > active_tokens[jwt.token_id].expires_at THEN "ttl_expired"
    ELSE IF active_tokens[jwt.token_id].current_uses
               >= active_tokens[jwt.token_id].max_uses THEN "max_uses"
    ELSE IF active_tokens[jwt.token_id].max_uses
               - (active_tokens[jwt.token_id].current_uses + 1) = 0
         THEN "consumed_last"
    ELSE "consumed"

ValidateValid(outcome) == outcome \in {"consumed", "consumed_last"}
ValidateDestroyed(outcome) ==
    outcome \in {"revoked", "not_found", "ttl_expired", "max_uses", "consumed_last"}

Consumed(rec) ==
    [rec EXCEPT !.current_uses = @ + 1,
                !.access_log = Append(@, rec.max_uses - (rec.current_uses + 1))]

validate_and_consume(jwt) ==
    LET id == jwt.token_id
        outcome == ValidateOutcome(jwt)
        isActive == id \in DOMAIN active_tokens
    IN /\ active_tokens' =
              IF outcome \in {"ttl_expired", "max_uses", "consumed_last"}
              THEN DestroyedActive(active_tokens, id)
              ELSE IF outcome = "consumed"
              THEN [active_tokens EXCEPT ![id] = Consumed(@)]
              ELSE active_tokens
       /\ revoked_tokens' =
              IF outcome \in {"ttl_expired", "max_uses", "consumed_last"}
              THEN DestroyedRevoked(active_tokens, revoked_tokens, id)
              ELSE revoked_tokens
       /\ valid_count' =
              IF ValidateValid(outcome)
              THEN [valid_count EXCEPT ![id] = @ + 1]
              ELSE valid_count
       /\ tok_result' =
              [op |-> "validate", token_id |-> id, task_id |-> jwt.task_id,
               valid |-> ValidateValid(outcome),
               destroyed |-> ValidateDestroyed(outcome),
               outcome |-> outcome, sig_ok |-> jwt.sig_ok,
               pre_active |-> isActive,
               pre_revoked |-> id \in revoked_tokens,
               pre_uses |-> IF isActive THEN active_tokens[id].current_uses ELSE 0,
               post_uses |-> IF ~isActive THEN 0
                             ELSE IF ValidateValid(outcome)
                             THEN active_tokens[id].current_uses + 1
                             ELSE active_tokens[id].current_uses,
               max_uses |-> jwt.max_uses,
               expires_at |-> IF isActive THEN active_tokens[id].expires_at
                              ELSE NoTime,
               at |-> now]
       /\ UNCHANGED <<issued_jwts, completed_tokens, now>>

\* Mutant of TokensOfTask: the task_id comparison is missing.
TokensOfTask_all(task_id) == DOMAIN active_tokens

TokensOfTask(task_id) ==
    {t \in DOMAIN active_tokens : active_tokens[t].task_id = task_id}

complete_task(task_id) ==
    /\ active_tokens' = [t \in DOMAIN active_tokens \ TokensOfTask(task_id) |->
                            active_tokens[t]]
    /\ revoked_tokens' = revoked_tokens \cup TokensOfTask(task_id)
    /\ completed_tokens' = completed_tokens
                               \cup {j.token_id : j \in {k \in issued_jwts :
                                                           k.task_id = task_id}}
    /\ tok_result' = [NoTokResult EXCEPT !.op = "complete",
                         !.task_id = task_id,
                         !.pre_uses = Cardinality(TokensOfTask(task_id))]
    /\ UNCHANGED <<issued_jwts, valid_count, now>>

\* ---------------------------------------------------------- budget ledger
Subjects == {"user_123", "user_999"}
\* current_user.sub of the caller of the budget routes.
Requesters == {"admin"}
\* (query_type, data_sensitivity, num_records) of a budget check: cost 1.0,
\* cost 0.25 * (1 + ln(2)/10), and the same with an unknown query type.
QueryInputs == {<<"raw", "high", 1>>, <<"individual", "medium", 2>>,
                <<"unknown_type", "medium", 2>>}
\* epsilon_budget of SetBudgetRequest is an unconstrained float: -0.5 and 0.5.
EpsilonChoices == {-5000, 5000}
ResetHoursChoices == {12}
BlockHoursChoices == {24}

DEFAULT_EPSILON_BUDGET == 10000
BUDGET_RESET_HOURS == 24
HISTORY_CAP == 1000

Hours(h) == h * 3600 * TicksPerSecond
\* x hundredths of an epsilon, in model units.
Eps100(x) == x * (DEFAULT_EPSILON_BUDGET \div 100)

\* QUERY_EPSILON_COSTS.get(query_type, {}).get(data_sensitivity, 0.25)
BaseCost(query_type, data_sensitivity) ==
    CASE query_type = "aggregate" /\ data_sensitivity = "low" -> Eps100(1)
      [] query_type = "aggregate" /\ data_sensitivity = "medium" -> Eps100(5)
      [] query_type = "aggregate" /\ data_sensitivity = "high" -> Eps100(10)
      [] query_type = "individual" /\ data_sensitivity = "low" -> Eps100(10)
      [] query_type = "individual" /\ data_sensitivity = "medium" -> Eps100(25)
      [] query_type = "individual" /\ data_sensitivity = "high" -> Eps100(50)
      [] query_type = "raw" /\ data_sensitivity = "low" -> Eps100(30)
      [] query_type = "raw" /\ data_sensitivity = "medium" -> Eps100(50)
      [] query_type = "raw" /\ data_sensitivity = "high" -> Eps100(100)
      [] OTHER -> Eps100(25)

\* math.log(n) in units of 1/10000, for the record counts the model draws.
LnScaled(n) ==
    CASE n = 2 -> 6931
      [] n = 3 -> 10986
      [] n = 4 -> 13863
      [] OTHER -> 16094

\* calculate_query_cost: base * (1 + ln(n)/10) when n > 1.
calculate_query_cost(query_type, data_sensitivity, num_records) ==
    IF num_records > 1
    THEN (BaseCost(query_type, data_sensitivity)
             * (DEFAULT_EPSILON_BUDGET + LnScaled(num_records) \div 10))
         \div DEFAULT_EPSILON_BUDGET
    ELSE BaseCost(query_type, data_sensitivity)

NewBudget(total, custom_reset_hours) ==
    [total_budget |-> total, remaining_budget |-> total, window_start |-> now,
     queries_count |-> 0, last_query |-> NoTime, alert_level |-> "normal",
     custom_reset_hours |-> custom_reset_hours]

\* Mutant of WindowElapsed: the window counts as elapsed at its last instant.
WindowElapsed_inclusive(budget) ==
    now >= budget.window_start + Hours(BUDGET_RESET_HOURS)

\* The window-reset test of _get_or_create_budget.
WindowElapsed(budget) == now > budget.window_start + Hours(BUDGET_RESET_HOURS)

\* _get_or_create_budget: the subject's account after creation and lazy reset.
get_or_create_budget(subject_id) ==
    LET budget == IF subject_id \in DOMAIN budgets THEN budgets[subject_id]
                  ELSE NewBudget(DEFAULT_EPSILON_BUDGET, NoTime)
    IN IF WindowElapsed(budget)
       THEN [budget EXCEPT !.remaining_budget = budget.total_budget,
                           !.window_start = now,
                           !.queries_count = 0,
                           !.alert_level = "normal"]
       ELSE budget

\* The alert level set after a consumption (the level is kept when the
\* ratio is at least 0.3).
AlertAfterConsume(budget) ==
    IF budget.remaining_budget * 10 < budget.total_budget THEN "critical"
    ELSE IF budget.remaining_budget * 10 < 3 * budget.total_budget THEN "warning"
    ELSE budget.alert_level

\* Mutant of ConsumeBudget: the query is counted and not charged.
ConsumeBudget_free(budget, query_cost) ==
    [budget EXCEPT !.queries_count = @ + 1, !.last_query = now]

\* Mutant of ConsumeBudget: the cost is charged twice.
ConsumeBudget_double(budget, query_cost) ==
    LET b == [budget EXCEPT !.remaining_budget = @ - 2 * query_cost,
                            !.queries_count = @ + 1,
                            !.last_query = now]
    IN [b EXCEPT !.alert_level = AlertAfterConsume(b)]

\* The account after "Consume budget" (lines 177-187).
ConsumeBudget(budget, query_cost) ==
    LET b == [budget EXCEPT !.remaining_budget = @ - query_cost,
                            !.queries_count = @ + 1,
                            !.last_query = now]
    IN [b EXCEPT !.alert_level = AlertAfterConsume(b)]

\* Mutant of InsufficientBudget: a cost equal to the remainder is refused.
InsufficientBudget_inclusive(budget, query_cost) ==
    budget.remaining_budget <= query_cost

\* "Check if enough budget remains" (line 154).
InsufficientBudget(budget, query_cost) == budget.remaining_budget < query_cost

\* Mutant of DenyBudget: the refused query is counted.
DenyBudget_counted(budget) ==
    [budget EXCEPT !.alert_level = "exhausted", !.queries_count = @ + 1]

\* The account after a refusal (line 156).
DenyBudget(budget) == [budget EXCEPT !.alert_level = "exhausted"]

HistoryOf(subject_id) ==
    IF subject_id \in DOMAIN query_history THEN query_history[subject_id] ELSE << >>

\* Mutant of KeepLast: the first HISTORY_CAP entries are kept.
KeepLast_first(h) ==
    IF Len(h) > HISTORY_CAP THEN SubSeq(h, 1, HISTORY_CAP) ELSE h

\* history[-1000:] once the list is longer than 1000.
KeepLast(h) ==
    IF Len(h) > HISTORY_CAP THEN SubSeq(h, Len(h) - HISTORY_CAP + 1, Len(h)) ELSE h

\* _log_query: append, then keep the last HISTORY_CAP entries.
log_query(subject_id, requester_id, cost, allowed) ==
    LET h == Append(HistoryOf(subject_id),
                    [requester_id |-> requester_id, cost |-> cost,
                     allowed |-> allowed])
    IN [s \in DOMAIN query_history \cup {subject_id} |->
           IF s = subject_id THEN KeepLast(h) ELSE query_history[s]]

\* Python's history[-limit:]: the last `limit` entries for a positive limit,
\* the whole list for 0, the list without its first -limit entries otherwise.
LastSlice(h, limit) ==
    IF limit > 0
    THEN IF limit >= Len(h) THEN h ELSE SubSeq(h, Len(h) - limit + 1, Len(h))
    ELSE SubSeq(h, 1 - limit, Len(h))

\* get_query_history: a copy of the tail of the list; the manager is not
\* written.
get_query_history(subject_id, limit) ==
    /\ calc_call' = [fn |-> "get_query_history", subject_id |-> subject_id,
                     limit |-> limit]
    /\ calc_result' = LastSlice(HistoryOf(subject_id), limit)
    /\ UNCHANGED budgetVars

SetBudget(subject_id, budget) ==
    [s \in DOMAIN budgets \cup {subject_id} |->
        IF s = subject_id THEN budget ELSE budgets[s]]

\* Mutant of RequesterBlocked: the block still holds at blocked_until itself.
RequesterBlocked_inclusive(requester_id) ==
    /\ requester_id \in DOMAIN blocked_requesters
    /\ now <= blocked_requesters[requester_id]

RequesterBlocked(requester_id) ==
    /\ requester_id \in DOMAIN blocked_requesters
    /\ now < blocked_requesters[requester_id]

HistoryTotal == Cardinality({<<s, i>> \in Subjects \X (1 .. MaxHistory) :
                                s \in DOMAIN query_history
                                /\ i <= Len(query_history[s])})

NoBudResult ==
    [op |-> "none", subject_id |-> "None", requester_id |-> "None",
     allowed |-> FALSE, reason |-> "none", query_cost |-> 0,
     budget_remaining |-> 0, existed |-> FALSE,
     rolled |-> NewBudget(0, NoTime)]

check_and_consume_budget(subject_id, requester_id, query_type, sens, num_records) ==
    LET budget == get_or_create_budget(subject_id)
        query_cost == calculate_query_cost(query_type, sens, num_records)
        res == [NoBudResult EXCEPT !.op = "check", !.subject_id = subject_id,
                   !.requester_id = requester_id, !.query_cost = query_cost,
                   !.existed = subject_id \in DOMAIN budgets]
    IN IF RequesterBlocked(requester_id)
       THEN /\ bud_result' = [res EXCEPT !.reason = "requester_blocked",
                                 !.query_cost = 0]
            /\ UNCHANGED <<budgets, query_history, blocked_requesters>>
       ELSE /\ blocked_requesters' =
                   [r \in DOMAIN blocked_requesters \ {requester_id} |->
                       blocked_requesters[r]]
            /\ IF InsufficientBudget(budget, query_cost)
               THEN /\ budgets' = SetBudget(subject_id, DenyBudget(budget))
                    /\ query_history' =
                           log_query(subject_id, requester_id, query_cost, FALSE)
                    /\ bud_result' =
                           [res EXCEPT !.reason = "budget_exhausted",
                               !.budget_remaining = budget.remaining_budget,
                               !.rolled = budget]
               ELSE /\ budgets' = SetBudget(subject_id,
                                            ConsumeBudget(budget, query_cost))
                    /\ query_history' =
                           log_query(subject_id, requester_id, query_cost, TRUE)
                    /\ bud_result' =
                           [res EXCEPT !.allowed = TRUE, !.reason = "consumed",
                               !.budget_remaining =
                                   ConsumeBudget(budget, query_cost).remaining_budget,
                               !.rolled = budget]

\* get_budget_status: only its call of _get_or_create_budget changes state
\* (with total_budget = 0 the percentage then raises ZeroDivisionError).
get_budget_status(subject_id) ==
    /\ budgets' = SetBudget(subject_id, get_or_create_budget(subject_id))
    /\ bud_result' = [NoBudResult EXCEPT !.op = "status", !.subject_id = subject_id,
                         !.existed = subject_id \in DOMAIN budgets,
                         !.rolled = get_or_create_budget(subject_id)]
    /\ UNCHANGED <<query_history, blocked_requesters>>

set_custom_budget(subject_id, epsilon_budget, reset_hours) ==
    /\ budgets' = SetBudget(subject_id, NewBudget(epsilon_budget, reset_hours))
    /\ bud_result' = [NoBudResult EXCEPT !.op = "set", !.subject_id = subject_id,
                         !.existed = subject_id \in DOMAIN budgets,
                         !.rolled = NewBudget(epsilon_budget, reset_hours)]
    /\ UNCHANGED <<query_history, blocked_requesters>>

block_requester(requester_id, hours) ==
    /\ blocked_requesters' =
           [r \in DOMAIN blocked_requesters \cup {requester_id} |->
               IF r = requester_id THEN now + Hours(hours)
               ELSE blocked_requesters[r]]
    /\ bud_result' = [NoBudResult EXCEPT !.op = "block",
                         !.requester_id = requester_id]
    /\ UNCHANGED <<budgets, query_history>>

\* ------------------------------------------------------- RTBF orchestrator
\* self.layer_handlers in registration (dict insertion) order.
LayerOrder ==
    <<"primary_database", "cache_layer", "search_index", "ml_models",
      "analytics_store", "audit_logs", "backup_systems", "third_party_services">>
Layers == {LayerOrder[i] : i \in 1 .. Len(LayerOrder)}

\* RTBFRequest.scope as the set of its entries; {} is None or the empty list.
ScopeChoices == {{}, {"all"}, {"cache_layer"}, {"no_such_layer"}}
\* layer_handlers holds replaceable callables.  The registered stubs return
\* normally; a handler that talks to a real store may raise.  A call draws
\* the set of layers whose handler raises during it.
FaultChoices == {{}, {"cache_layer"}, Layers}

\* _generate_request_id: a digest of "subject_id:timestamp", i.e. a function
\* of the pair.
generate_request_id(subject_id) == <<subject_id, now>>
NoRequestId == <<"None", NoTime>>

IdleCall ==
    [pc |-> "idle", request_id |-> NoRequestId, subject_id |-> "None",
     scope |-> {}, failing |-> {}, results |-> << >>, invoked |-> {},
     next_layer |-> 0]

\* The rtbf_request dict built at lines 101-113 (scope or ["all"]).  An
\* absent deletion_certificate key is the empty sequence.
NewRtbfRequest(request_id, subject_id, scope) ==
    [request_id |-> request_id, subject_id |-> subject_id,
     scope |-> IF scope = {} THEN {"all"} ELSE scope,
     status |-> "pending", created_at |-> now, layer_status |-> << >>,
     access_blocked |-> TRUE, deletion_certificate |-> << >>]

\* Mutant of BlockSubject: the subject is not blocked when the call starts.
BlockSubject_skipped(subject_id) == blocked_subjects

\* self.blocked_subjects[subject_id] = datetime.utcnow()  (line 98)
BlockSubject(subject_id) ==
    [s \in DOMAIN blocked_subjects \cup {subject_id} |->
        IF s = subject_id THEN now ELSE blocked_subjects[s]]

\* Mutant of is_subject_blocked: only subjects with a request still in
\* active_requests count as blocked.
is_subject_blocked_active_only(subject_id) ==
    \E r \in DOMAIN active_requests : active_requests[r].subject_id = subject_id

\* Mutant of is_subject_blocked: no subject is blocked.
is_subject_blocked_never(subject_id) == FALSE

\* is_subject_blocked: membership in blocked_subjects.
is_subject_blocked(subject_id) == subject_id \in DOMAIN blocked_subjects

\* "Check if this layer is in scope" (lines 149-155): the handler of a
\* layer is called unless a non-empty scope names neither "all" nor the layer.
HandlerInvoked(layer, scope) ==
    ~(scope # {} /\ "all" \notin scope /\ layer \notin scope)

\* Mutant of LayerOutcome: the exception of a raising handler is swallowed
\* and its layer recorded as completed.
LayerOutcome_swallowed(layer, scope, failing) ==
    IF ~HandlerInvoked(layer, scope) THEN "skipped" ELSE "completed"

\* One iteration of the loop of _execute_purge: the status recorded for layer.
LayerOutcome(layer, scope, failing) ==
    IF ~HandlerInvoked(layer, scope) THEN "skipped"
    ELSE IF layer \in failing THEN "failed"
    ELSE "completed"

\* Mutant of determine_overall_status: any failed layer fails the request.
determine_overall_status_no_partial(results) ==
    LET statuses == {results[l] : l \in DOMAIN results}
    IN IF statuses \subseteq {"completed", "skipped"} THEN "completed"
       ELSE "failed"

\* _determine_overall_status over the statuses of the layer results.
determine_overall_status(results) ==
    LET statuses == {results[l] : l \in DOMAIN results}
    IN IF statuses \subseteq {"completed", "skipped"} THEN "completed"
       ELSE IF "failed" \in statuses
       THEN IF "completed" \in statuses THEN "partial" ELSE "failed"
       ELSE "in_progress"

\* Mutant of ResultKeys: only the layers that were not skipped are listed.
ResultKeys_purged_only(results) ==
    SelectSeq(LayerOrder, LAMBDA l : l \in DOMAIN results /\ results[l] # "skipped")

\* list(results.keys()): the layers in the order their results were stored.
ResultKeys(results) ==
    SelectSeq(LayerOrder, LAMBDA l : l \in DOMAIN results)

\* _generate_deletion_certificate; the digests are functions of their input.
generate_deletion_certificate(request_id, subject_id, results) ==
    [request_id |-> request_id, subject_id_hash |-> <<"sha256", subject_id>>,
     deletion_timestamp |-> now, layers_purged |-> ResultKeys(results)]

\* Subjects for which trigger_rtbf has been called, read off its records.
TriggeredSubjects ==
    {active_requests[r].subject_id : r \in DOMAIN active_requests}
        \cup {purge_records[i].subject_id : i \in 1 .. Len(purge_records)}

RequestCount == Cardinality(DOMAIN active_requests) + Len(purge_records)

\* trigger_rtbf, lines 95-115: id, block, request record, registration.
trigger_rtbf_begin(subject_id, scope, failing) ==
    LET request_id == generate_request_id(subject_id)
    IN /\ rtbf_call.pc = "idle"
       /\ blocked_subjects' = BlockSubject(subject_id)
       /\ active_requests' =
              [r \in DOMAIN active_requests \cup {request_id} |->
                  IF r = request_id
                  THEN NewRtbfRequest(request_id, subject_id, scope)
                  ELSE active_requests[r]]
       /\ rtbf_call' = [pc |-> "purging", request_id |-> request_id,
                        subject_id |-> subject_id, scope |-> scope,
                        failing |-> failing, results |-> << >>,
                        invoked |-> {}, next_layer |-> 1]
       /\ UNCHANGED <<purge_records, rtbf_result>>

\* _execute_purge, lines 146-170: the next layer of the loop.
execute_purge_layer ==
    /\ rtbf_call.pc = "purging"
    /\ rtbf_call.next_layer <= Len(LayerOrder)
    /\ LET layer == LayerOrder[rtbf_call.next_layer]
       IN rtbf_call' =
              [rtbf_call EXCEPT
                  !.results = @ @@ (layer :> LayerOutcome(layer, rtbf_call.scope,
                                                          rtbf_call.failing)),
                  !.invoked = IF HandlerInvoked(layer, rtbf_call.scope)
                              THEN @ \cup {layer} ELSE @,
                  !.next_layer = @ + 1]
    /\ UNCHANGED <<active_requests, purge_records, blocked_subjects, rtbf_result>>

\* trigger_rtbf, lines 120-135: status, certificate, move to purge_records.
trigger_rtbf_finish ==
    /\ rtbf_call.pc = "purging"
    /\ rtbf_call.next_layer > Len(LayerOrder)
    /\ LET request_id == rtbf_call.request_id
           status == determine_overall_status(rtbf_call.results)
           updated == [active_requests[request_id] EXCEPT
                          !.layer_status = rtbf_call.results,
                          !.status = status]
           certified == [updated EXCEPT !.deletion_certificate =
                            <<generate_deletion_certificate(
                                  request_id, rtbf_call.subject_id,
                                  rtbf_call.results)>>]
       IN IF status = "completed"
          THEN /\ purge_records' = Append(purge_records, certified)
               /\ active_requests' =
                      [r \in DOMAIN active_requests \ {request_id} |->
                          active_requests[r]]
               /\ rtbf_result' = <<certified>>
          ELSE /\ active_requests' =
                      [active_requests EXCEPT ![request_id] = updated]
               /\ rtbf_result' = <<updated>>
               /\ UNCHANGED purge_records
    /\ rtbf_call' = IdleCall
    /\ UNCHANGED blocked_subjects

\* ----------------------------------------------------------- policy engine
VALID_PURPOSES ==
    {"analytics", "research", "compliance", "audit", "reporting",
     "operational", "marketing", "security"}
VALID_JURISDICTIONS == {"US", "EU", "UK", "APAC", "LATAM", "GLOBAL"}
ROLES == {"admin", "analyst", "external"}

\* Mutant of RolePermissions: every role has the permissions of admin.
RolePermissions_unrestricted(role) ==
    [purposes |-> VALID_PURPOSES, jurisdictions |-> VALID_JURISDICTIONS,
     max_sensitivity |-> "high"]

\* ROLE_PERMISSIONS[role]
RolePermissions(role) ==
    CASE role = "admin" ->
           [purposes |-> VALID_PURPOSES, jurisdictions |-> VALID_JURISDICTIONS,
            max_sensitivity |-> "high"]
      [] role = "analyst" ->
           [purposes |-> {"analytics", "research", "reporting"},
            jurisdictions |-> {"US", "EU", "UK"}, max_sensitivity |-> "medium"]
      [] OTHER ->
           [purposes |-> {"reporting"}, jurisdictions |-> {"US"},
            max_sensitivity |-> "low"]

SENSITIVITY_NAMES == {"low", "medium", "high"}
\* Mutant of SENSITIVITY_LEVELS: every level has the same rank.
SENSITIVITY_LEVELS_flat(s) == 1

SENSITIVITY_LEVELS(s) == CASE s = "low" -> 1 [] s = "medium" -> 2 [] OTHER -> 3

PolicyChecks(role_valid, purpose_allowed, jurisdiction_allowed, sensitivity_allowed) ==
    [role_valid |-> role_valid, purpose_allowed |-> purpose_allowed,
     jurisdiction_allowed |-> jurisdiction_allowed,
     sensitivity_allowed |-> sensitivity_allowed]

\* evaluate_policy: the checks in the order of the code, first failure returns.
evaluate_policy(role, purpose, location, data_sensitivity) ==
    IF role \notin ROLES
    THEN [allowed |-> FALSE, reason |-> "invalid_role",
          checks |-> PolicyChecks(FALSE, FALSE, FALSE, FALSE)]
    ELSE IF purpose \notin VALID_PURPOSES
    THEN [allowed |-> FALSE, reason |-> "invalid_purpose",
          checks |-> PolicyChecks(TRUE, FALSE, FALSE, FALSE)]
    ELSE IF purpose \notin RolePermissions(role).purposes
    THEN [allowed |-> FALSE, reason |-> "purpose_not_allowed_for_role",
          checks |-> PolicyChecks(TRUE, FALSE, FALSE, FALSE)]
    ELSE IF location \notin VALID_JURISDICTIONS
    THEN [allowed |-> FALSE, reason |-> "invalid_jurisdiction",
          checks |-> PolicyChecks(TRUE, TRUE, FALSE, FALSE)]
    ELSE IF location \notin RolePermissions(role).jurisdictions
    THEN [allowed |-> FALSE, reason |-> "jurisdiction_not_allowed_for_role",
          checks |-> PolicyChecks(TRUE, TRUE, FALSE, FALSE)]
    ELSE IF data_sensitivity \notin SENSITIVITY_NAMES
    THEN [allowed |-> FALSE, reason |-> "invalid_sensitivity",
          checks |-> PolicyChecks(TRUE, TRUE, TRUE, FALSE)]
    ELSE IF SENSITIVITY_LEVELS(data_sensitivity)
               > SENSITIVITY_LEVELS(RolePermissions(role).max_sensitivity)
    THEN [allowed |-> FALSE, reason |-> "sensitivity_exceeds_maximum",
          checks |-> PolicyChecks(TRUE, TRUE, TRUE, FALSE)]
    ELSE [allowed |-> TRUE, reason |-> "all_policy_checks_passed",
          checks |-> PolicyChecks(TRUE, TRUE, TRUE, TRUE)]

\* ------------------------------------------------------------- risk engine
\* The weight tables in tenths; a key that is not in a table gets 0.5.
ROLE_RISK_WEIGHTS(role) ==
    CASE role = "admin" -> 1 [] role = "analyst" -> 3 [] role = "external" -> 7
      [] OTHER -> 5
SENSITIVITY_RISK_WEIGHTS(s) ==
    CASE s = "low" -> 1 [] s = "medium" -> 5 [] s = "high" -> 9 [] OTHER -> 5
PURPOSE_RISK_WEIGHTS(p) ==
    CASE p \in {"audit", "compliance"} -> 1
      [] p = "security" -> 2
      [] p = "operational" -> 3
      [] p = "analytics" -> 4
      [] p \in {"research", "reporting"} -> 5
      [] p = "marketing" -> 8
      [] OTHER -> 5
JURISDICTION_RISK_WEIGHTS(l) ==
    CASE l \in {"US", "EU", "UK"} -> 2
      [] l = "APAC" -> 4
      [] l = "LATAM" -> 5
      [] l = "GLOBAL" -> 6
      [] OTHER -> 5

Min(a, b) == IF a < b THEN a ELSE b
Max(a, b) == IF a > b THEN a ELSE b

\* calculate_risk_score in thousandths: weights 0.25, 0.35, 0.25, 0.15,
\* clamped to [0, 1].
calculate_risk_score(role_score, sensitivity_score, purpose_score, jurisdiction_score) ==
    Min(1000, Max(0, role_score * 25 + sensitivity_score * 35
                        + purpose_score * 25 + jurisdiction_score * 15))

\* settings.risk_threshold = 0.7, in thousandths.
RISK_THRESHOLD == 700

\* get_risk_level
get_risk_level(risk_score) ==
    IF risk_score < 300 THEN "low" ELSE IF risk_score < 600 THEN "medium" ELSE "high"

\* assess_risk
assess_risk(role, purpose, location, data_sensitivity) ==
    LET risk_score == calculate_risk_score(
                          ROLE_RISK_WEIGHTS(role),
                          SENSITIVITY_RISK_WEIGHTS(data_sensitivity),
                          PURPOSE_RISK_WEIGHTS(purpose),
                          JURISDICTION_RISK_WEIGHTS(location))
    IN [risk_score |-> risk_score, risk_level |-> get_risk_level(risk_score),
        exceeds_threshold |-> risk_score > RISK_THRESHOLD]

\* --------------------------------------------------------- consent registry
\* ConsentManager.__init__: the three seeded consent records.
InitialConsents ==
    [u \in {"user_123", "user_456", "user_789"} |->
        [purposes |-> CASE u = "user_123" -> {"analytics", "research", "reporting"}
                        [] u = "user_456" -> {"operational", "security", "audit"}
                        [] OTHER -> {"compliance", "audit"},
         granted_at |-> 0, expires_at |-> NoTime]]

\* _is_consent_expired
is_consent_expired(consent) ==
    IF consent.expires_at = NoTime THEN FALSE ELSE now > consent.expires_at

\* check_consent
check_consent(requester_id, purpose) ==
    IF requester_id \notin DOMAIN consents
    THEN [has_consent |-> FALSE, reason |-> "no_consent_found",
          granted_purposes |-> {}]
    ELSE IF is_consent_expired(consents[requester_id])
    THEN [has_consent |-> FALSE, reason |-> "consent_expired",
          granted_purposes |-> consents[requester_id].purposes]
    ELSE IF purpose \notin consents[requester_id].purposes
    THEN [has_consent |-> FALSE, reason |-> "purpose_not_granted",
          granted_purposes |-> consents[requester_id].purposes]
    ELSE [has_consent |-> TRUE, reason |-> "consent_granted",
          granted_purposes |-> consents[requester_id].purposes]

\* Mutant of GrantedRecord: the purposes of the previous record are kept.
GrantedRecord_merged(requester_id, purposes) ==
    [purposes |-> IF requester_id \in DOMAIN consents
                  THEN purposes \cup consents[requester_id].purposes
                  ELSE purposes,
     granted_at |-> now, expires_at |-> NoTime]

\* The record grant_consent stores (lines 76-81).
GrantedRecord(requester_id, purposes) ==
    [purposes |-> purposes, granted_at |-> now, expires_at |-> NoTime]

\* grant_consent
grant_consent(requester_id, purposes) ==
    /\ consents' = [u \in DOMAIN consents \cup {requester_id} |->
                       IF u = requester_id
                       THEN GrantedRecord(requester_id, purposes)
                       ELSE consents[u]]
    /\ calc_call' = [fn |-> "grant_consent", requester_id |-> requester_id,
                     purposes |-> purposes]
    /\ calc_result' = TRUE

\* revoke_consent
revoke_consent(requester_id) ==
    /\ consents' = [u \in DOMAIN consents \ {requester_id} |-> consents[u]]
    /\ calc_call' = [fn |-> "revoke_consent", requester_id |-> requester_id]
    /\ calc_result' = (requester_id \in DOMAIN consents)

\* -------------------------------------------------------- legal compliance
\* str.upper() on the location strings the model draws.
Upper(location) ==
    CASE location = "ca" -> "CA"
      [] location = "eu" -> "EU"
      [] location = "us" -> "US"
      [] OTHER -> location

\* GEO_MAPPING, to the value of the Jurisdiction member; "None" when the
\* key is absent.
GEO_MAPPING(loc_upper) ==
    CASE loc_upper \in {"DE", "FR", "IT", "ES", "NL", "BE", "PL", "SE", "AT",
                        "IE", "PT", "FI"} -> "EU"
      [] loc_upper \in {"GB", "UK"} -> "UK"
      [] loc_upper \in {"US_CA", "CA"} -> "US_CA"
      [] loc_upper = "US_VA" -> "US_VA"
      [] loc_upper = "US_CO" -> "US_CO"
      [] loc_upper \in {"IN", "INDIA"} -> "IN"
      [] loc_upper \in {"BR", "BRAZIL"} -> "BR"
      [] loc_upper = "SG" -> "SG"
      [] loc_upper = "AU" -> "AU"
      [] OTHER -> "None"

\* The jurisdiction one location of detect_jurisdictions contributes.
JurisdictionsOf(location) ==
    IF location = "" THEN {}
    ELSE IF GEO_MAPPING(Upper(location)) # "None"
    THEN {GEO_MAPPING(Upper(location))}
    ELSE IF Upper(location) = "EU" THEN {"EU"}
    ELSE {}

\* detect_jurisdictions
detect_jurisdictions(data_subject_location, requester_location, data_storage_location) ==
    LET found == JurisdictionsOf(data_subject_location)
                     \cup JurisdictionsOf(requester_location)
                     \cup JurisdictionsOf(data_storage_location)
    IN IF found = {} THEN {"GLOBAL"} ELSE found

\* The keys of PRIVACY_LAWS and the requirement entries the compliance
\* verdict and its issue list read.
LawJurisdictions == {"EU", "US_CA", "IN", "UK", "BR", "SG"}
LawName(j) ==
    CASE j = "EU" -> "GDPR" [] j = "US_CA" -> "CCPA" [] j = "IN" -> "DPDP"
      [] j = "UK" -> "UK GDPR" [] j = "BR" -> "LGPD" [] OTHER -> "PDPA"
\* Mutant of LawConsentRequired: no law requires consent.
LawConsentRequired_never(j) == FALSE

LawConsentRequired(j) == j # "US_CA"
LawCrossBorderRestrictions(j) == j # "US_CA"
LawPurposeLimitation(j) == IF j \in {"EU", "IN", "UK"} THEN "strict" ELSE "moderate"

\* The values of the Jurisdiction enum.
JURISDICTIONS ==
    {"EU", "US_CA", "US_VA", "US_CO", "UK", "IN", "BR", "CA", "AU", "SG", "GLOBAL"}

\* strictness_score of each law, in hundredths.
LawStrictnessScore(j) ==
    CASE j = "EU" -> 95 [] j = "US_CA" -> 75 [] j = "IN" -> 85
      [] j = "UK" -> 93 [] j = "BR" -> 80 [] OTHER -> 70

\* The boolean requirement keys get_strictest_requirements merges.
BOOLEAN_REQUIREMENTS ==
    {"consent_required", "explicit_consent_for_sensitive", "right_to_erasure",
     "data_portability", "dpo_required", "cross_border_restrictions",
     "profiling_opt_out", "automated_decision_rights", "data_minimization",
     "retention_limits"}

\* The boolean requirements each law sets to True.
LawRequirements(j) ==
    CASE j \in {"EU", "UK"} -> BOOLEAN_REQUIREMENTS
      [] j = "US_CA" -> {"right_to_erasure", "data_portability",
                         "profiling_opt_out", "automated_decision_rights"}
      [] j = "IN" -> {"consent_required", "explicit_consent_for_sensitive",
                      "right_to_erasure", "dpo_required",
                      "cross_border_restrictions", "data_minimization",
                      "retention_limits"}
      [] j = "BR" -> {"consent_required", "explicit_consent_for_sensitive",
                      "right_to_erasure", "data_portability", "dpo_required",
                      "cross_border_restrictions", "data_minimization",
                      "retention_limits"}
      [] OTHER -> {"consent_required", "data_portability", "dpo_required",
                   "cross_border_restrictions", "retention_limits"}

\* Mutant of SubstituteGlobal: GLOBAL stands for the two most lenient laws.
SubstituteGlobal_lenient(jurisdictions) ==
    IF "GLOBAL" \in jurisdictions \/ jurisdictions = {}
    THEN {"US_CA", "SG"} ELSE jurisdictions

\* "Apply most restrictive combination" (lines 258-260).
SubstituteGlobal(jurisdictions) ==
    IF "GLOBAL" \in jurisdictions \/ jurisdictions = {}
    THEN {"EU", "IN"} ELSE jurisdictions

\* max(max_strictness, law["strictness_score"]) over the laws, from 0.
MaxStrictness(laws) ==
    IF laws = {} THEN 0
    ELSE CHOOSE m \in {LawStrictnessScore(j) : j \in laws} :
             \A j \in laws : LawStrictnessScore(j) <= m

\* get_strictest_requirements: GLOBAL stands for EU and INDIA; jurisdictions
\* without an entry in PRIVACY_LAWS contribute nothing.
get_strictest_requirements(jurisdictions) ==
    LET js == SubstituteGlobal(jurisdictions)
        laws == js \cap LawJurisdictions
    IN [merged_requirements |->
            [k \in BOOLEAN_REQUIREMENTS |-> \E j \in laws : k \in LawRequirements(j)],
        strictness_score |-> MaxStrictness(laws),
        consent_required |-> \E j \in laws : LawConsentRequired(j),
        cross_border_restrictions |-> \E j \in laws : LawCrossBorderRestrictions(j),
        purpose_limitation |->
            IF \E j \in laws : LawPurposeLimitation(j) = "strict" THEN "strict"
            ELSE IF laws # {} THEN "moderate" ELSE "none",
        applicable_laws |-> {LawName(j) : j \in laws}]

STRICT_PURPOSES == {"analytics", "research", "compliance", "audit", "operational"}

\* evaluate_compliance, lines 330-394: the result for a request dict that
\* carries consent_verified (FALSE when the key is absent).
evaluate_compliance(purpose, consent_verified, data_subject_location, requester_location) ==
    LET jurisdictions == detect_jurisdictions(data_subject_location,
                                              requester_location, "US")
        reqs == get_strictest_requirements(jurisdictions)
        issues ==
            (IF reqs.consent_required /\ ~consent_verified
             THEN <<"CONSENT_REQUIRED">> ELSE << >>)
            \o (IF reqs.purpose_limitation = "strict" /\ purpose \notin STRICT_PURPOSES
                THEN <<"PURPOSE_LIMITATION">> ELSE << >>)
            \o (IF reqs.cross_border_restrictions
                     /\ data_subject_location # requester_location
                THEN <<"CROSS_BORDER_TRANSFER">> ELSE << >>)
    IN [is_compliant |->
            ~(\E i \in 1 .. Len(issues) : issues[i] = "CONSENT_REQUIRED"),
        jurisdictions |-> jurisdictions,
        applicable_laws |-> reqs.applicable_laws,
        compliance_issues |-> issues]

COMPLIANCE_LOG_CAP == 1000

\* _log_compliance_check: append, then keep the last COMPLIANCE_LOG_CAP.
log_compliance_check(requester_id, purpose, data_sensitivity, result) ==
    LET l == Append(compliance_log,
                    [requester_id |-> requester_id, purpose |-> purpose,
                     sensitivity |-> data_sensitivity,
                     is_compliant |-> result.is_compliant,
                     applicable_laws |-> result.applicable_laws,
                     issues_count |-> Len(result.compliance_issues)])
    IN IF Len(l) > COMPLIANCE_LOG_CAP
       THEN SubSeq(l, Len(l) - COMPLIANCE_LOG_CAP + 1, Len(l)) ELSE l

\* -------------------------------------------------------- adaptive masking
MASKING_LEVEL_NAMES == {"none", "light", "moderate", "heavy", "full"}
FIELD_TYPES ==
    {"email", "phone", "ssn", "name", "address", "dob", "ip_address",
     "credit_card", "medical", "financial", "generic"}

\* MASKING_STRATEGIES.get(field_type, MASKING_STRATEGIES["generic"])
MASKING_STRATEGIES(field_type) ==
    CASE field_type = "email" -> <<"hash", "domain_only", "synthetic", "redact">>
      [] field_type = "phone" -> <<"partial", "hash", "synthetic", "redact">>
      [] field_type = "ssn" -> <<"partial", "hash", "redact">>
      [] field_type = "name" -> <<"initials", "pseudonym", "synthetic", "redact">>
      [] field_type = "address" ->
             <<"city_only", "region_only", "synthetic", "redact">>
      [] field_type = "dob" -> <<"year_only", "age_range", "synthetic", "redact">>
      [] field_type = "ip_address" -> <<"subnet", "hash", "synthetic", "redact">>
      [] field_type = "credit_card" -> <<"last_four", "hash", "redact">>
      [] field_type = "medical" -> <<"category_only", "synthetic", "redact">>
      [] field_type = "financial" -> <<"range", "synthetic", "redact">>
      [] OTHER -> <<"partial", "hash", "synthetic", "redact">>

\* level_to_index.get(masking_level, 3)
level_to_index(masking_level) ==
    CASE masking_level = "none" -> -1
      [] masking_level = "light" -> 0
      [] masking_level = "moderate" -> 1
      [] masking_level = "heavy" -> 2
      [] OTHER -> 3

\* get_strategy_for_level (the sequences here are indexed from 1).
get_strategy_for_level(field_type, masking_level) ==
    LET strategies == MASKING_STRATEGIES(field_type)
        idx == level_to_index(masking_level)
    IN IF idx < 0 THEN "none"
       ELSE strategies[Min(idx, Len(strategies) - 1) + 1]

\* How much of the raw value the output of _apply_masking (and of mask_data
\* for strategy "none") carries: 2 the value itself, 1 a part of it or a
\* value derived from it by coarsening (leading characters, last four,
\* domain, initials, year, age range, subnet, amount range), 0 nothing (a
\* constant, a digest, or random synthetic data).
Exposure(strategy) ==
    CASE strategy = "none" -> 2
      [] strategy \in {"partial", "domain_only", "last_four", "initials",
                       "year_only", "age_range", "subnet", "range"} -> 1
      [] OTHER -> 0

\* ------------------------------------------------- access-decision routes
\* (role, purpose, location, data_sensitivity) of a DataAccessRequest: one
\* that passes policy and risk, one that fails policy and exceeds the risk
\* threshold, one from a location the policy rejects and the compliance
\* engine maps to an opt-out law.
RequestInputs ==
    {<<"admin", "analytics", "US", "low">>,
     <<"external", "marketing", "US", "high">>,
     <<"admin", "analytics", "ca", "high">>}

RTBF_REASON == "Data subject has exercised Right to Be Forgotten - all access blocked"

NoDecResult ==
    [pipeline |-> "none", requester_id |-> "None", decision |-> "none",
     reason |-> << >>, risk_score |-> 0, in_blocked_set |-> FALSE,
     rtbf_triggered |-> FALSE, evaluated |-> {}, policy_allowed |-> FALSE,
     has_consent |-> FALSE, exceeds_threshold |-> FALSE,
     budget_allowed |-> FALSE, is_compliant |-> FALSE]

\* AuditLogger.log_request: one row of the audit_logs table.
log_request(requester_id, role, purpose, location, data_sensitivity, decision, reason, risk_score) ==
    Append(audit_log,
           [requester_id |-> requester_id, requester_role |-> role,
            purpose |-> purpose, location |-> location,
            data_sensitivity |-> data_sensitivity, decision |-> decision,
            reason |-> reason, risk_score |-> risk_score])

\* The verdict of the basic route (lines 119, 134-136).
BasicVerdict(policy_allowed, has_consent, exceeds_threshold) ==
    IF policy_allowed /\ has_consent /\ ~exceeds_threshold THEN "ALLOW" ELSE "DENY"

\* Mutant of EnhancedVerdict: the compliance result is left out of the merge.
EnhancedVerdict_without_compliance(policy_allowed, has_consent, exceeds_threshold, budget_allowed, is_compliant) ==
    IF policy_allowed /\ has_consent /\ ~exceeds_threshold /\ budget_allowed
    THEN "ALLOW" ELSE "DENY"

\* The verdict of the enhanced route (lines 590, 612-623).
EnhancedVerdict(policy_allowed, has_consent, exceeds_threshold, budget_allowed, is_compliant) ==
    IF policy_allowed /\ has_consent /\ ~exceeds_threshold /\ budget_allowed
          /\ is_compliant
    THEN "ALLOW" ELSE "DENY"

\* Mutant of ReasonParts: only the first failing check is reported.
ReasonParts_first_only(policy_allowed, has_consent, exceeds_threshold) ==
    IF ~policy_allowed THEN <<"Policy">>
    ELSE IF ~has_consent THEN <<"Consent">>
    ELSE IF exceeds_threshold THEN <<"Risk">>
    ELSE << >>

\* The reason parts the routes join with " | ", by their prefixes.
ReasonParts(policy_allowed, has_consent, exceeds_threshold) ==
    (IF ~policy_allowed THEN <<"Policy">> ELSE << >>)
    \o (IF ~has_consent THEN <<"Consent">> ELSE << >>)
    \o (IF exceeds_threshold THEN <<"Risk">> ELSE << >>)

\* request_data_access: POST /request-data.
request_data_access(requester_id, role, purpose, location, data_sensitivity) ==
    LET policy_result == evaluate_policy(role, purpose, location, data_sensitivity)
        consent_result == check_consent(requester_id, purpose)
        risk_result == assess_risk(role, purpose, location, data_sensitivity)
        final_decision == BasicVerdict(policy_result.allowed,
                                       consent_result.has_consent,
                                       risk_result.exceeds_threshold)
        reasons == ReasonParts(policy_result.allowed, consent_result.has_consent,
                               risk_result.exceeds_threshold)
                   \o (IF final_decision = "ALLOW"
                       THEN <<"All checks passed">> ELSE << >>)
    IN /\ audit_log' = log_request(requester_id, role, purpose, location,
                                   data_sensitivity, final_decision, reasons,
                                   risk_result.risk_score)
       /\ decisions_returned' = decisions_returned + 1
       /\ dec_result' =
              [pipeline |-> "basic", requester_id |-> requester_id,
               decision |-> final_decision, reason |-> reasons,
               risk_score |-> risk_result.risk_score,
               in_blocked_set |-> requester_id \in DOMAIN blocked_subjects,
               rtbf_triggered |-> requester_id \in TriggeredSubjects,
               evaluated |-> {"policy", "consent", "risk"},
               policy_allowed |-> policy_result.allowed,
               has_consent |-> consent_result.has_consent,
               exceeds_threshold |-> risk_result.exceeds_threshold,
               budget_allowed |-> FALSE, is_compliant |-> FALSE]
       /\ UNCHANGED <<consents, compliance_log>>

\* request_data_access_enhanced: POST /request-data/enhanced.  sub is
\* current_user["sub"], the authenticated caller.
request_data_access_enhanced(requester_id, sub, role, purpose, location, data_sensitivity) ==
    LET policy_result == evaluate_policy(role, purpose, location, data_sensitivity)
        consent_result == check_consent(requester_id, purpose)
        risk_result == assess_risk(role, purpose, location, data_sensitivity)
        compliance_result == evaluate_compliance(purpose, FALSE, location, "US")
    IN IF is_subject_blocked(requester_id)
       THEN /\ dec_result' =
                   [pipeline |-> "enhanced", requester_id |-> requester_id,
                    decision |-> "DENY", reason |-> <<RTBF_REASON>>,
                    risk_score |-> 1000,
                    in_blocked_set |-> requester_id \in DOMAIN blocked_subjects,
                    rtbf_triggered |-> requester_id \in TriggeredSubjects,
                    evaluated |-> {},
                    policy_allowed |-> policy_result.allowed,
                    has_consent |-> consent_result.has_consent,
                    exceeds_threshold |-> risk_result.exceeds_threshold,
                    budget_allowed |-> FALSE, is_compliant |-> FALSE]
            /\ decisions_returned' = decisions_returned + 1
            /\ UNCHANGED <<budgetVars, consents, compliance_log, audit_log>>
       ELSE /\ check_and_consume_budget(requester_id, sub, "individual",
                                        data_sensitivity, 1)
            /\ compliance_log' = log_compliance_check(requester_id, purpose,
                                     data_sensitivity, compliance_result)
            /\ LET final_decision ==
                       EnhancedVerdict(policy_result.allowed,
                                       consent_result.has_consent,
                                       risk_result.exceeds_threshold,
                                       bud_result'.allowed,
                                       compliance_result.is_compliant)
                   reasons ==
                       ReasonParts(policy_result.allowed,
                                   consent_result.has_consent,
                                   risk_result.exceeds_threshold)
                       \o (IF ~bud_result'.allowed
                           THEN <<"Privacy Budget">> ELSE << >>)
                       \o (IF ~compliance_result.is_compliant
                           THEN <<"Legal">> ELSE << >>)
                       \o (IF final_decision = "ALLOW"
                           THEN <<"All privacy checks passed">> ELSE << >>)
               IN /\ audit_log' = log_request(requester_id, role, purpose,
                                      location, data_sensitivity, final_decision,
                                      reasons, risk_result.risk_score)
                  /\ dec_result' =
                         [pipeline |-> "enhanced", requester_id |-> requester_id,
                          decision |-> final_decision, reason |-> reasons,
                          risk_score |-> risk_result.risk_score,
                          in_blocked_set |->
                              requester_id \in DOMAIN blocked_subjects,
                          rtbf_triggered |-> requester_id \in TriggeredSubjects,
                          evaluated |-> {"policy", "consent", "risk", "budget",
                                         "compliance"},
                          policy_allowed |-> policy_result.allowed,
                          has_consent |-> consent_result.has_consent,
                          exceeds_threshold |-> risk_result.exceeds_threshold,
                          budget_allowed |-> bud_result'.allowed,
                          is_compliant |-> compliance_result.is_compliant]
            /\ decisions_returned' = decisions_returned + 1
            /\ UNCHANGED consents

\* No stateless function has been called yet.
NoCall == [fn |-> "none"]

vars == <<now, tokenVars, budgetVars, rtbfVars, decisionVars, calcVars, concVars>>

Init ==
    /\ now = 0
    /\ active_tokens = << >>
    /\ revoked_tokens = {}
    /\ issued_jwts = {}
    /\ valid_count = << >>
    /\ completed_tokens = {}
    /\ tok_result = NoTokResult
    /\ budgets = << >>
    /\ query_history = << >>
    /\ blocked_requesters = << >>
    /\ bud_result = NoBudResult
    /\ active_requests = << >>
    /\ purge_records = << >>
    /\ blocked_subjects = << >>
    /\ rtbf_call = IdleCall
    /\ rtbf_result = << >>
    /\ consents = InitialConsents
    /\ compliance_log = << >>
    /\ audit_log = << >>
    /\ decisions_returned = 0
    /\ dec_result = NoDecResult
    /\ calc_call = NoCall
    /\ calc_result = << >>
    /\ calls = << >>

\* ------------------------------------------------- the token manager alone
GenerateTaskToken ==
    /\ \E task_id \in Tasks, ttl \in TtlChoices, max_uses \in MaxUsesChoices :
           generate_task_token(task_id, ttl, max_uses)
    /\ UNCHANGED <<concVars, budgetVars, rtbfVars, decisionVars, calcVars>>

ValidateAndConsume ==
    /\ \E jwt \in PresentedTokens : validate_and_consume(jwt)
    /\ UNCHANGED <<concVars, budgetVars, rtbfVars, decisionVars, calcVars>>

CompleteTask ==
    /\ \E task_id \in Tasks : complete_task(task_id)
    /\ UNCHANGED <<concVars, budgetVars, rtbfVars, decisionVars, calcVars>>

TokenTick ==
    /\ now < MaxTick
    /\ now' = now + 1
    /\ UNCHANGED <<tokenVars, concVars, budgetVars, rtbfVars, decisionVars, calcVars>>

TokenNext ==
    \/ GenerateTaskToken
    \/ ValidateAndConsume
    \/ CompleteTask
    \/ TokenTick

SpecToken == Init /\ [][TokenNext]_vars

\* ------------------------------------- concurrent calls of /tokens/validate
\* Every route is an `async def` run by one event loop.  The server accepts
\* any number of requests before running any of them (SubmitValidate), and
\* runs the accepted ones in any order (RunValidate).  The body of
\* validate_token holds no await: once started it runs to its return.
NoResponse == [status |-> "none"]

IssueToken ==
    /\ \E ttl \in TtlChoices, max_uses \in MaxUsesChoices :
           generate_task_token("task_a", ttl, max_uses)
    /\ UNCHANGED <<concVars, budgetVars, rtbfVars, decisionVars, calcVars>>

SubmitValidate ==
    /\ Cardinality(DOMAIN calls) < MaxConcurrent
    /\ \E jwt \in issued_jwts :
           calls' = calls @@ (Cardinality(DOMAIN calls) + 1 :>
                        [route |-> "/tokens/validate", token |-> jwt,
                         status |-> "pending", response |-> NoResponse])
    /\ UNCHANGED <<now, tokenVars, budgetVars, rtbfVars, decisionVars, calcVars>>

RunValidate ==
    /\ \E c \in DOMAIN calls :
           /\ calls[c].status = "pending"
           /\ validate_and_consume(calls[c].token)
           /\ calls' = [calls EXCEPT ![c].status = "done",
                                     ![c].response = [valid |-> tok_result'.valid]]
    /\ UNCHANGED <<budgetVars, rtbfVars, decisionVars, calcVars>>

ConcurrentTokenNext ==
    \/ IssueToken
    \/ SubmitValidate
    \/ RunValidate
    \/ TokenTick

SpecTokenConcurrent == Init /\ [][ConcurrentTokenNext]_vars

\* ------------------------------------------------- the budget ledger alone
CheckAndConsumeBudget ==
    /\ HistoryTotal < MaxHistory
    /\ \E subject_id \in Subjects, requester_id \in Requesters, q \in QueryInputs :
           check_and_consume_budget(subject_id, requester_id, q[1], q[2], q[3])
    /\ UNCHANGED <<now, tokenVars, concVars, rtbfVars, decisionVars, calcVars>>

GetBudgetStatus ==
    /\ \E subject_id \in Subjects : get_budget_status(subject_id)
    /\ UNCHANGED <<now, tokenVars, concVars, rtbfVars, decisionVars, calcVars>>

SetCustomBudget ==
    /\ \E subject_id \in Subjects, epsilon_budget \in EpsilonChoices,
          reset_hours \in ResetHoursChoices :
           set_custom_budget(subject_id, epsilon_budget, reset_hours)
    /\ UNCHANGED <<now, tokenVars, concVars, rtbfVars, decisionVars, calcVars>>

BlockRequester ==
    /\ \E requester_id \in Requesters, hours \in BlockHoursChoices :
           block_requester(requester_id, hours)
    /\ UNCHANGED <<now, tokenVars, concVars, rtbfVars, decisionVars, calcVars>>

BudgetTick ==
    /\ now < MaxHalfDays * Hours(12)
    /\ now' = now + Hours(12)
    /\ UNCHANGED <<tokenVars, concVars, budgetVars, rtbfVars, decisionVars, calcVars>>

\* ------------------------------- concurrent calls of /privacy-budget/check
\* As for /tokens/validate: requests are accepted in any number and run in
\* any order; the body of check_privacy_budget holds no await.  An account
\* is configured, if at all, before the first request is accepted.
ConfigureBudget ==
    /\ calls = << >>
    /\ \E subject_id \in Subjects, epsilon_budget \in EpsilonChoices,
          reset_hours \in ResetHoursChoices :
           set_custom_budget(subject_id, epsilon_budget, reset_hours)
    /\ UNCHANGED <<now, tokenVars, concVars, rtbfVars, decisionVars, calcVars>>

SubmitCheck ==
    /\ Cardinality(DOMAIN calls) < MaxConcurrent
    /\ \E subject_id \in Subjects, q \in QueryInputs :
           calls' = calls @@ (Cardinality(DOMAIN calls) + 1 :>
                        [route |-> "/privacy-budget/check",
                         subject_id |-> subject_id, query |-> q,
                         status |-> "pending", response |-> NoResponse])
    /\ UNCHANGED <<now, tokenVars, budgetVars, rtbfVars, decisionVars, calcVars>>

RunCheck ==
    /\ \E c \in DOMAIN calls, requester_id \in Requesters :
           /\ calls[c].status = "pending"
           /\ check_and_consume_budget(calls[c].subject_id, requester_id,
                                       calls[c].query[1], calls[c].query[2],
                                       calls[c].query[3])
           /\ calls' = [calls EXCEPT ![c].status = "done",
                                     ![c].response =
                                         [allowed |-> bud_result'.allowed,
                                          query_cost |-> bud_result'.query_cost,
                                          at |-> now]]
    /\ UNCHANGED <<now, tokenVars, rtbfVars, decisionVars, calcVars>>

ConcurrentBudgetNext ==
    \/ ConfigureBudget
    \/ SubmitCheck
    \/ RunCheck
    \/ BudgetTick

SpecBudgetConcurrent == Init /\ [][ConcurrentBudgetNext]_vars

\* --------------------------------------------- the history list at its cap
\* The ledger of a server that has been running for a while: a subject
\* whose list already holds `n` attempts of another requester and whose
\* account has just been set by set_custom_budget.  The costs of the earlier
\* attempts cycle through three values, so that neighbours differ.
EarlierCosts == <<Eps100(100), Eps100(10), Eps100(50)>>
EarlierAttempt(i) ==
    [requester_id |-> "analyst", cost |-> EarlierCosts[(i % 3) + 1],
     allowed |-> (i % 2 = 0)]
EarlierLengths == {HISTORY_CAP - 1, HISTORY_CAP}
LimitChoices == {-1, 0, 1, 50}

LongRunningLedger ==
    /\ budgets = << >>
    /\ query_history = << >>
    /\ \E subject_id \in Subjects, n \in EarlierLengths, k \in 0 .. 1 :
           /\ query_history' =
                  (subject_id :> [i \in 1 .. n |-> EarlierAttempt(i + k)])
           /\ budgets' = SetBudget(subject_id,
                                   NewBudget(DEFAULT_EPSILON_BUDGET, 24))
           /\ bud_result' = [NoBudResult EXCEPT !.op = "set",
                                !.subject_id = subject_id,
                                !.rolled = NewBudget(DEFAULT_EPSILON_BUDGET, 24)]
    /\ UNCHANGED <<now, blocked_requesters, tokenVars, concVars, rtbfVars,
                   decisionVars, calcVars>>

\* The attempts logged for the model's own requesters: they are the newest
\* entries of a list, at most MaxAppends of them.
LoggedHere ==
    {<<s, i>> \in Subjects \X (0 .. MaxAppends - 1) :
        /\ s \in DOMAIN query_history
        /\ i < Len(query_history[s])
        /\ query_history[s][Len(query_history[s]) - i].requester_id \in Requesters}

LogAttempt ==
    /\ Cardinality(LoggedHere) < MaxAppends
    /\ \E subject_id \in Subjects, requester_id \in Requesters, q \in QueryInputs :
           check_and_consume_budget(subject_id, requester_id, q[1], q[2], q[3])
    /\ UNCHANGED <<now, tokenVars, concVars, rtbfVars, decisionVars, calcVars>>

GetQueryHistory ==
    /\ \E subject_id \in Subjects, limit \in LimitChoices :
           get_query_history(subject_id, limit)
    /\ UNCHANGED <<now, tokenVars, concVars, rtbfVars, decisionVars>>

HistoryNext ==
    \/ LongRunningLedger
    \/ LogAttempt
    \/ GetQueryHistory

SpecHistory == Init /\ [][HistoryNext]_vars

BudgetNext ==
    \/ CheckAndConsumeBudget
    \/ GetBudgetStatus
    \/ SetCustomBudget
    \/ BudgetTick

SpecBudget == Init /\ [][BudgetNext]_vars

\* --------------------------------------- the ledger with requester blocks
BlockNext ==
    \/ CheckAndConsumeBudget
    \/ BlockRequester
    \/ BudgetTick

SpecBlock == Init /\ [][BlockNext]_vars

\* ------------------------------------------------ the RTBF orchestrator
TriggerRtbfBegin ==
    /\ RequestCount < MaxRequests
    /\ \E subject_id \in Subjects, scope \in ScopeChoices, failing \in FaultChoices :
           trigger_rtbf_begin(subject_id, scope, failing)
    /\ UNCHANGED <<now, tokenVars, concVars, budgetVars, decisionVars, calcVars>>

ExecutePurgeLayer ==
    /\ execute_purge_layer
    /\ UNCHANGED <<now, tokenVars, concVars, budgetVars, decisionVars, calcVars>>

TriggerRtbfFinish ==
    /\ trigger_rtbf_finish
    /\ UNCHANGED <<now, tokenVars, concVars, budgetVars, decisionVars, calcVars>>

RtbfTick ==
    /\ rtbf_call.pc = "idle"
    /\ now < MaxRtbfTick
    /\ now' = now + 1
    /\ UNCHANGED <<tokenVars, concVars, budgetVars, rtbfVars, decisionVars, calcVars>>

RtbfNext ==
    \/ TriggerRtbfBegin
    \/ ExecutePurgeLayer
    \/ TriggerRtbfFinish
    \/ RtbfTick

SpecRtbf == Init /\ [][RtbfNext]_vars

\* ------------------------------- the decision routes with RTBF triggers
BasicRequest ==
    /\ rtbf_call.pc = "idle"
    /\ decisions_returned < MaxDecisions
    /\ \E requester_id \in Subjects, q \in RequestInputs :
           request_data_access(requester_id, q[1], q[2], q[3], q[4])
    /\ UNCHANGED <<now, tokenVars, concVars, budgetVars, rtbfVars, calcVars>>

EnhancedRequest ==
    /\ rtbf_call.pc = "idle"
    /\ decisions_returned < MaxDecisions
    /\ \E requester_id \in Subjects, sub \in Requesters, q \in RequestInputs :
           request_data_access_enhanced(requester_id, sub, q[1], q[2], q[3], q[4])
    /\ UNCHANGED <<now, tokenVars, concVars, rtbfVars, calcVars>>

\* POST /rtbf/trigger arriving between access decisions.
TriggerRtbfBetweenDecisions ==
    /\ RequestCount < MaxDecisionRequests
    /\ \E subject_id \in Subjects, scope \in ScopeChoices, failing \in FaultChoices :
           trigger_rtbf_begin(subject_id, scope, failing)
    /\ UNCHANGED <<now, tokenVars, concVars, budgetVars, decisionVars, calcVars>>

DecisionNext ==
    \/ BasicRequest
    \/ EnhancedRequest
    \/ TriggerRtbfBetweenDecisions
    \/ ExecutePurgeLayer
    \/ TriggerRtbfFinish

SpecDecision == Init /\ [][DecisionNext]_vars

\* ------------------------------- requests carrying an unknown enum value
\* The request schemas type role, purpose, location, data_sensitivity and
\* query_type as plain str.  (query_type, data_sensitivity, num_records) of
\* a budget check with an unknown query type, and with an unknown sensitivity.
UnknownQueryInputs == {<<"bulk", "high", 1>>, <<"raw", "secret", 1>>}
\* (role, purpose, location, data_sensitivity) of a DataAccessRequest with
\* an unknown role, and with an unknown sensitivity.
UnknownRequestInputs ==
    {<<"superuser", "analytics", "US", "low">>,
     <<"admin", "analytics", "US", "secret">>}

CheckUnknownEnum ==
    /\ HistoryTotal < MaxHistory
    /\ \E subject_id \in Subjects, requester_id \in Requesters,
          q \in UnknownQueryInputs :
           check_and_consume_budget(subject_id, requester_id, q[1], q[2], q[3])
    /\ UNCHANGED <<now, tokenVars, concVars, rtbfVars, decisionVars, calcVars>>

EnhancedUnknownEnum ==
    /\ HistoryTotal < MaxHistory
    /\ \E requester_id \in Subjects, sub \in Requesters,
          q \in UnknownRequestInputs :
           request_data_access_enhanced(requester_id, sub, q[1], q[2], q[3], q[4])
    /\ UNCHANGED <<now, tokenVars, concVars, rtbfVars, calcVars>>

ValidationNext ==
    \/ CheckUnknownEnum
    \/ EnhancedUnknownEnum
    \/ BudgetTick

SpecValidation == Init /\ [][ValidationNext]_vars

\* ------------------------------------------- the compliance merge alone
\* One call of get_strictest_requirements on a set J of jurisdictions and
\* one on J with the jurisdiction j added.
MergeJurisdictions ==
    /\ calc_call = NoCall
    /\ \E J \in SUBSET JURISDICTIONS, j \in JURISDICTIONS :
           /\ calc_call' = [fn |-> "get_strictest_requirements", J |-> J, j |-> j]
           /\ calc_result' = <<get_strictest_requirements(J),
                               get_strictest_requirements(J \cup {j})>>
    /\ UNCHANGED <<now, tokenVars, concVars, budgetVars, rtbfVars, decisionVars>>

ComplianceNext == MergeJurisdictions

SpecCompliance == Init /\ [][ComplianceNext]_vars

\* ---------------------------------------------- the masking strategies alone
\* get_strategy_for_level for one field type at two masking levels.
ChooseStrategies ==
    /\ calc_call = NoCall
    /\ \E field_type \in FIELD_TYPES \cup {"unknown_type"},
          level1 \in MASKING_LEVEL_NAMES, level2 \in MASKING_LEVEL_NAMES :
           /\ calc_call' = [fn |-> "get_strategy_for_level",
                            field_type |-> field_type,
                            level1 |-> level1, level2 |-> level2]
           /\ calc_result' = <<get_strategy_for_level(field_type, level1),
                               get_strategy_for_level(field_type, level2)>>
    /\ UNCHANGED <<now, tokenVars, concVars, budgetVars, rtbfVars, decisionVars>>

\* MASKING_LEVELS: min_risk and max_risk of each level, in thousandths.
MASKING_LEVELS(level) ==
    CASE level = "none" -> [min_risk |-> 0, max_risk |-> 200]
      [] level = "light" -> [min_risk |-> 200, max_risk |-> 400]
      [] level = "moderate" -> [min_risk |-> 400, max_risk |-> 600]
      [] level = "heavy" -> [min_risk |-> 600, max_risk |-> 800]
      [] level = "full" -> [min_risk |-> 800, max_risk |-> 1000]

\* MASKING_LEVELS.items(): the levels in the order of the table.
MASKING_LEVEL_ORDER == <<"none", "light", "moderate", "heavy", "full">>

\* Mutant of InBand: the upper bound of a band belongs to it, the lower not.
InBand_upper_inclusive(level, risk_score) ==
    /\ MASKING_LEVELS(level).min_risk < risk_score
    /\ risk_score <= MASKING_LEVELS(level).max_risk

\* min_risk <= risk_score < max_risk
InBand(level, risk_score) ==
    /\ MASKING_LEVELS(level).min_risk <= risk_score
    /\ risk_score < MASKING_LEVELS(level).max_risk

\* determine_masking_level: the first level, in the order of the table,
\* whose band holds the score; "full" when no band does (1.0, and any score
\* outside [0, 1]).
determine_masking_level(risk_score) ==
    LET hits == {i \in 1 .. Len(MASKING_LEVEL_ORDER) :
                    InBand(MASKING_LEVEL_ORDER[i], risk_score)}
    IN IF hits = {} THEN "full"
       ELSE MASKING_LEVEL_ORDER[CHOOSE i \in hits : \A j \in hits : i <= j]

\* Risk scores in thousandths, with a margin on either side of [0, 1].
RiskScores == (-ScoreMargin) .. (1000 + ScoreMargin)

DetermineMaskingLevel ==
    /\ calc_call = NoCall
    /\ \E risk_score \in RiskScores :
           /\ calc_call' = [fn |-> "determine_masking_level",
                            risk_score |-> risk_score]
           /\ calc_result' = determine_masking_level(risk_score)
    /\ UNCHANGED <<now, tokenVars, concVars, budgetVars, rtbfVars, decisionVars>>

AssessRisk ==
    /\ calc_call = NoCall
    /\ \E role \in ROLES \cup {"superuser"},
          purpose \in VALID_PURPOSES \cup {"profiling"},
          location \in VALID_JURISDICTIONS \cup {"ca"},
          data_sensitivity \in SENSITIVITY_NAMES \cup {"secret"} :
           /\ calc_call' = [fn |-> "assess_risk", role |-> role,
                            purpose |-> purpose, location |-> location,
                            data_sensitivity |-> data_sensitivity]
           /\ calc_result' = assess_risk(role, purpose, location, data_sensitivity)
    /\ UNCHANGED <<now, tokenVars, concVars, budgetVars, rtbfVars, decisionVars>>

LevelNext ==
    \/ DetermineMaskingLevel
    \/ AssessRisk

SpecLevel == Init /\ [][LevelNext]_vars

MaskingNext == ChooseStrategies

SpecMasking == Init /\ [][MaskingNext]_vars

\* --------------------------------------------------- the policy engine alone
\* evaluate_policy on one request dict; each field also takes a value its
\* table does not know.
EvaluatePolicy ==
    /\ calc_call = NoCall
    /\ \E role \in ROLES \cup {"superuser"},
          purpose \in VALID_PURPOSES \cup {"profiling"},
          location \in VALID_JURISDICTIONS \cup {"ca"},
          data_sensitivity \in SENSITIVITY_NAMES \cup {"secret"} :
           /\ calc_call' = [fn |-> "evaluate_policy", role |-> role,
                            purpose |-> purpose, location |-> location,
                            data_sensitivity |-> data_sensitivity]
           /\ calc_result' =
                  evaluate_policy(role, purpose, location, data_sensitivity)
    /\ UNCHANGED <<now, tokenVars, concVars, budgetVars, rtbfVars, decisionVars>>

PolicyNext == EvaluatePolicy

SpecPolicy == Init /\ [][PolicyNext]_vars

\* ------------------------------------------------ the consent registry alone
\* Purpose lists of a grant: one purpose, two purposes, the empty list.
GrantChoices == {{"analytics"}, {"marketing", "research"}, {}}
CheckedPurposes == {"analytics", "marketing", "reporting"}

GrantConsent ==
    /\ \E requester_id \in Subjects, purposes \in GrantChoices :
           grant_consent(requester_id, purposes)
    /\ UNCHANGED <<now, tokenVars, concVars, budgetVars, rtbfVars, compliance_log,
                   audit_log, decisions_returned, dec_result>>

RevokeConsent ==
    /\ \E requester_id \in Subjects : revoke_consent(requester_id)
    /\ UNCHANGED <<now, tokenVars, concVars, budgetVars, rtbfVars, compliance_log,
                   audit_log, decisions_returned, dec_result>>

CheckConsent ==
    /\ \E requester_id \in Subjects, purpose \in CheckedPurposes :
           /\ calc_call' = [fn |-> "check_consent", requester_id |-> requester_id,
                            purpose |-> purpose]
           /\ calc_result' = check_consent(requester_id, purpose)
    /\ UNCHANGED <<now, tokenVars, concVars, budgetVars, rtbfVars, decisionVars>>

ConsentNext ==
    \/ GrantConsent
    \/ RevokeConsent
    \/ CheckConsent

SpecConsent == Init /\ [][ConsentNext]_vars

\* ---------------- the policy check and the risk score of the same request
\* The stateless part of the basic route: evaluate_policy and assess_risk of
\* one request dict, and the verdict for either answer of check_consent.
PolicyAndRisk ==
    /\ calc_call = NoCall
    /\ \E role \in ROLES \cup {"superuser"},
          purpose \in VALID_PURPOSES \cup {"profiling"},
          location \in VALID_JURISDICTIONS \cup {"ca"},
          data_sensitivity \in SENSITIVITY_NAMES \cup {"secret"} :
           LET policy_result ==
                   evaluate_policy(role, purpose, location, data_sensitivity)
               risk_result == assess_risk(role, purpose, location, data_sensitivity)
           IN /\ calc_call' = [fn |-> "request_data_access", role |-> role,
                               purpose |-> purpose, location |-> location,
                               data_sensitivity |-> data_sensitivity]
              /\ calc_result' =
                     [policy |-> policy_result, risk |-> risk_result,
                      final_decision |->
                          [has_consent \in BOOLEAN |->
                              BasicVerdict(policy_result.allowed, has_consent,
                                           risk_result.exceeds_threshold)]]
    /\ UNCHANGED <<now, tokenVars, concVars, budgetVars, rtbfVars, decisionVars>>

PolicyRiskNext == PolicyAndRisk

SpecPolicyRisk == Init /\ [][PolicyRiskNext]_vars

\* ------------------------- one enhanced decision for any request contents
\* Consent is granted and revoked in any order; then one request arrives at
\* the enhanced route with any role, purpose and sensitivity and with any of
\* the policy's jurisdictions or "ca" (which GEO_MAPPING maps to US_CA) as
\* its location.
EnhancedLocations == VALID_JURISDICTIONS \cup {"ca"}

EnhancedAnyRequest ==
    /\ dec_result = NoDecResult
    /\ \E requester_id \in Subjects, sub \in Requesters, role \in ROLES,
          purpose \in VALID_PURPOSES, location \in EnhancedLocations,
          data_sensitivity \in SENSITIVITY_NAMES :
           request_data_access_enhanced(requester_id, sub, role, purpose,
                                        location, data_sensitivity)
    /\ UNCHANGED <<now, tokenVars, concVars, rtbfVars, calcVars>>

EnhancedNext ==
    \/ GrantConsent
    \/ RevokeConsent
    \/ EnhancedAnyRequest

SpecEnhanced == Init /\ [][EnhancedNext]_vars

\* ================================================================== claims

\* C1: for every token, the server record keeps current_uses <= max_uses,
\* and the number of validate_and_consume calls that returned valid=true
\* for the token never exceeds its max_uses.
C1_UsesNeverExceedMax ==
    /\ \A t \in DOMAIN active_tokens :
           active_tokens[t].current_uses <= active_tokens[t].max_uses
    /\ \A j \in issued_jwts : valid_count[j.token_id] <= j.max_uses

\* C2: the validate_and_consume call that brings current_uses to max_uses
\* returns valid=true, destroyed=true and moves the token from the active
\* to the revoked set in that call; every later validate_and_consume of
\* the (correctly signed) token returns valid=false, destroyed=true and
\* consumes nothing.
C2_LastUseDestroysAndStaysDestroyed ==
    tok_result.op = "validate" =>
        /\ (tok_result.pre_active /\ tok_result.post_uses > tok_result.pre_uses
                /\ tok_result.post_uses = tok_result.max_uses)
              => /\ tok_result.valid /\ tok_result.destroyed
                 /\ tok_result.token_id \notin DOMAIN active_tokens
                 /\ tok_result.token_id \in revoked_tokens
        /\ (tok_result.sig_ok /\ tok_result.pre_revoked)
              => /\ ~tok_result.valid /\ tok_result.destroyed
                 /\ tok_result.post_uses = tok_result.pre_uses

\* C3: a correctly signed token that is still active and is presented when
\* now > expires_at is destroyed by that call (removed from the active set,
\* added to the revoked set) and the call returns valid=false,
\* destroyed=true.
C3_ExpiredTokenDestroyedWhenPresented ==
    (tok_result.op = "validate" /\ tok_result.sig_ok /\ tok_result.pre_active
        /\ tok_result.at > tok_result.expires_at)
      => /\ ~tok_result.valid /\ tok_result.destroyed
         /\ tok_result.token_id \notin DOMAIN active_tokens
         /\ tok_result.token_id \in revoked_tokens

\* C4: every budget account satisfies 0 <= remaining_budget <= total_budget.
C4_BudgetWithinBounds ==
    \A s \in DOMAIN budgets :
        /\ 0 <= budgets[s].remaining_budget
        /\ budgets[s].remaining_budget <= budgets[s].total_budget

\* C5: a check_and_consume_budget call by a non-blocked requester charges at
\* most once: with r the remaining budget after the lazy window roll and c
\* the cost, r < c gives allowed=false with remaining_budget and
\* queries_count unchanged; otherwise allowed=true, remaining_budget = r - c
\* and queries_count one more.
C5_ChargedExactlyOnceOrNotAtAll ==
    (bud_result.op = "check" /\ bud_result.reason # "requester_blocked") =>
        LET r == bud_result.rolled.remaining_budget
            q == bud_result.rolled.queries_count
            c == bud_result.query_cost
            b == budgets[bud_result.subject_id]
        IN IF r < c
           THEN /\ ~bud_result.allowed
                /\ b.remaining_budget = r
                /\ b.queries_count = q
           ELSE /\ bud_result.allowed
                /\ b.remaining_budget = r - c
                /\ b.queries_count = q + 1

\* C5 witness: a check denied with a positive remainder below the cost, on
\* an account that was charged before.
C5_Witness ==
    /\ bud_result.op = "check"
    /\ ~bud_result.allowed
    /\ bud_result.reason = "budget_exhausted"
    /\ bud_result.rolled.remaining_budget > 0
    /\ bud_result.rolled.queries_count > 0

\* C6: in trigger_rtbf the subject is in the blocked set before the first
\* per-layer purge handler is invoked (in every state of the purge loop,
\* the one before its first iteration included), and the subject of a
\* returned request is in the blocked set, whatever handlers failed.
C6_BlockedBeforePurgeAndOnReturn ==
    /\ rtbf_call.pc = "purging"
          => rtbf_call.subject_id \in DOMAIN blocked_subjects
    /\ \A i \in 1 .. Len(rtbf_result) :
           rtbf_result[i].subject_id \in DOMAIN blocked_subjects

\* C6 witness: a trigger_rtbf call has returned after every handler failed.
C6_Witness ==
    /\ Len(rtbf_result) = 1
    /\ rtbf_result[1].status = "failed"
    /\ \A l \in Layers : rtbf_result[1].layer_status[l] = "failed"
    /\ rtbf_result[1].subject_id \in DOMAIN blocked_subjects

\* C7: once trigger_rtbf has been called for a subject, whatever the purge
\* outcome, is_subject_blocked stays true for it, and every enhanced access
\* decision made afterwards for that requester_id is DENY with the fixed
\* RTBF reason, whatever policy, consent and risk return for the request.
C7_TriggeredSubjectStaysBlockedAndDenied ==
    /\ \A s \in TriggeredSubjects : is_subject_blocked(s)
    /\ (dec_result.pipeline = "enhanced" /\ dec_result.rtbf_triggered)
          => /\ dec_result.decision = "DENY"
             /\ dec_result.reason = <<RTBF_REASON>>
             /\ dec_result.evaluated = {}

\* C7 witness: an enhanced request that policy, consent and risk would pass
\* is denied for a subject whose RTBF purge failed in every layer.
C7_Witness ==
    /\ dec_result.pipeline = "enhanced"
    /\ dec_result.rtbf_triggered
    /\ dec_result.policy_allowed /\ dec_result.has_consent
    /\ ~dec_result.exceeds_threshold
    /\ dec_result.decision = "DENY"
    /\ \E r \in DOMAIN active_requests :
           /\ active_requests[r].subject_id = dec_result.requester_id
           /\ active_requests[r].status = "failed"

\* C8: a basic access decision whose requester_id is in the RTBF blocked
\* set is DENY with the fixed RTBF reason, never ALLOW.
C8_BasicShortCircuitsBlocked ==
    (dec_result.pipeline = "basic" /\ dec_result.in_blocked_set)
      => /\ dec_result.decision = "DENY"
         /\ dec_result.reason = <<RTBF_REASON>>

\* C9: for a request whose requester_id is not RTBF-blocked the verdict is
\* ALLOW exactly when every evaluated check passes (basic: policy, consent,
\* risk; enhanced: those three, budget and compliance), and DENY otherwise.
C9_AllowIffAllChecksPass ==
    (dec_result.pipeline \in {"basic", "enhanced"} /\ ~dec_result.in_blocked_set)
      => /\ dec_result.decision \in {"ALLOW", "DENY"}
         /\ dec_result.pipeline = "basic"
               => /\ dec_result.evaluated = {"policy", "consent", "risk"}
                  /\ dec_result.decision = "ALLOW"
                        <=> (/\ dec_result.policy_allowed
                             /\ dec_result.has_consent
                             /\ ~dec_result.exceeds_threshold)
         /\ dec_result.pipeline = "enhanced"
               => /\ dec_result.evaluated = {"policy", "consent", "risk",
                                             "budget", "compliance"}
                  /\ dec_result.decision = "ALLOW"
                        <=> (/\ dec_result.policy_allowed
                             /\ dec_result.has_consent
                             /\ ~dec_result.exceeds_threshold
                             /\ dec_result.budget_allowed
                             /\ dec_result.is_compliant)

\* C9 witness: after a basic request was allowed, an enhanced request of a
\* non-blocked requester passes policy, consent, risk and budget, fails
\* compliance and is denied.
C9_Witness ==
    /\ dec_result.pipeline = "enhanced"
    /\ ~dec_result.in_blocked_set
    /\ dec_result.policy_allowed /\ dec_result.has_consent
    /\ ~dec_result.exceeds_threshold /\ dec_result.budget_allowed
    /\ ~dec_result.is_compliant
    /\ dec_result.decision = "DENY"
    /\ \E i \in 1 .. Len(audit_log) : audit_log[i].decision = "ALLOW"

\* C10: every access decision returned, basic or enhanced, the RTBF
\* short-circuit included, has appended exactly one audit record: the
\* number of audit records equals the number of decisions returned.
C10_OneAuditRecordPerDecision ==
    Len(audit_log) = decisions_returned

\* C11: after complete_task(t) no token whose task_id is t is in the active
\* set and all of them are in the revoked set; every later
\* validate_and_consume of one of them (correctly signed) returns
\* valid=false, destroyed=true.
C11_CompleteTaskDestroysTokensOfTask ==
    /\ tok_result.op = "complete"
          => \A j \in issued_jwts :
                 j.task_id = tok_result.task_id
                    => /\ j.token_id \notin DOMAIN active_tokens
                       /\ j.token_id \in revoked_tokens
    /\ (tok_result.op = "validate" /\ tok_result.sig_ok
           /\ tok_result.token_id \in completed_tokens)
          => ~tok_result.valid /\ tok_result.destroyed

\* C12: the active set and the revoked set are disjoint in every state; a
\* token id in the revoked set stays there and never re-enters the active
\* set; destroying a destroyed token, and validating one, changes no state.
C12_DestructionTerminalAndIdempotent ==
    /\ [](/\ DOMAIN active_tokens \cap revoked_tokens = {}
          /\ \A id \in revoked_tokens :
                 /\ DestroyedActive(active_tokens, id) = active_tokens
                 /\ DestroyedRevoked(active_tokens, revoked_tokens, id)
                        = revoked_tokens)
    /\ [][/\ revoked_tokens \subseteq revoked_tokens'
          /\ revoked_tokens \cap DOMAIN active_tokens' = {}
          /\ (tok_result'.op = "validate" /\ tok_result'.pre_revoked)
                => UNCHANGED <<active_tokens, revoked_tokens, valid_count>>]_vars

\* C12 witness: a correctly signed token that was destroyed before has been
\* presented and reported as revoked.
C12_Witness ==
    /\ tok_result.op = "validate"
    /\ tok_result.sig_ok /\ tok_result.pre_revoked
    /\ tok_result.outcome = "revoked"
    /\ tok_result.token_id \in revoked_tokens
    /\ tok_result.token_id \notin DOMAIN active_tokens

\* C13: a token leaves the active set only in a validate_and_consume of
\* that token that finds its TTL passed or finds or brings its use count to
\* max_uses (or beyond), or in complete_task for its own task_id; a token
\* that stays active has its record changed only by a successful
\* validate_and_consume of that token.
C13_TokenLeavesActiveOnlyByItsOwnEvents ==
    [][\A t \in DOMAIN active_tokens :
          /\ t \notin DOMAIN active_tokens'
                => \/ /\ tok_result'.op = "validate"
                      /\ tok_result'.token_id = t
                      /\ \/ now > active_tokens[t].expires_at
                         \/ active_tokens[t].current_uses
                                >= active_tokens[t].max_uses
                         \/ active_tokens[t].current_uses + 1
                                = active_tokens[t].max_uses
                   \/ /\ tok_result'.op = "complete"
                      /\ tok_result'.task_id = active_tokens[t].task_id
          /\ (t \in DOMAIN active_tokens' /\ active_tokens'[t] # active_tokens[t])
                => /\ tok_result'.op = "validate"
                   /\ tok_result'.token_id = t
                   /\ tok_result'.valid]_vars

\* C13 witness: complete_task destroyed the tokens of one task while a
\* token of the other task is still active.
C13_Witness ==
    /\ tok_result.op = "complete"
    /\ tok_result.pre_uses >= 1
    /\ \E t \in DOMAIN active_tokens :
           active_tokens[t].task_id # tok_result.task_id

\* C14: validate_and_consume of a token whose signature does not verify
\* returns valid=false and leaves the active set, the revoked set and every
\* token's current_uses unchanged.
C14_TamperedTokenFailsClosed ==
    [][(tok_result'.op = "validate" /\ ~tok_result'.sig_ok)
          => /\ ~tok_result'.valid
             /\ UNCHANGED <<active_tokens, revoked_tokens, valid_count>>]_vars

\* C14 witness: a tampered copy of an active, partly used token was
\* rejected and the token is still active with the same use count.
C14_Witness ==
    /\ tok_result.op = "validate"
    /\ ~tok_result.sig_ok /\ ~tok_result.valid
    /\ tok_result.pre_active /\ tok_result.pre_uses >= 1
    /\ tok_result.token_id \in DOMAIN active_tokens
    /\ active_tokens[tok_result.token_id].current_uses = tok_result.pre_uses

\* C15: a check_and_consume_budget call denied because the cost exceeds the
\* remaining budget mutates no field of the subject's account: the account
\* is the same after the call as after the lazy window roll.
C15_DenialMutatesNoField ==
    (bud_result.op = "check" /\ bud_result.reason = "budget_exhausted")
      => budgets[bud_result.subject_id] = bud_result.rolled

\* C15 as amended: such a denial leaves remaining_budget, queries_count,
\* last_query, window_start and total_budget as they were after the lazy
\* window roll, and sets alert_level to "exhausted".
C15_DenialOnlySetsAlert ==
    (bud_result.op = "check" /\ bud_result.reason = "budget_exhausted")
      => /\ ~bud_result.allowed
         /\ bud_result.budget_remaining = bud_result.rolled.remaining_budget
         /\ budgets[bud_result.subject_id]
                = [bud_result.rolled EXCEPT !.alert_level = "exhausted"]

\* C15 witness: a denial on an account that had budget left and an alert
\* level other than exhausted.
C15_Witness ==
    /\ bud_result.op = "check"
    /\ bud_result.reason = "budget_exhausted"
    /\ bud_result.rolled.remaining_budget > 0
    /\ bud_result.rolled.queries_count > 0
    /\ bud_result.rolled.alert_level = "normal"
    /\ budgets[bud_result.subject_id].alert_level = "exhausted"

\* C16: on a fresh account with total budget 1.0, a raw/high query (cost
\* 1.0) is allowed, leaves remaining 0.0 and alert level exhausted; each
\* further raw/high query in the same window (the account as the previous
\* call of the sequence left it) is denied with the same reason (same cost,
\* same available amount) and decrements nothing.
C16_ScenarioC ==
    /\ (bud_result.op = "check" /\ bud_result.query_cost = DEFAULT_EPSILON_BUDGET
           /\ bud_result.rolled.total_budget = DEFAULT_EPSILON_BUDGET
           /\ bud_result.rolled.remaining_budget = DEFAULT_EPSILON_BUDGET
           /\ bud_result.rolled.queries_count = 0)
          => /\ bud_result.allowed
             /\ bud_result.budget_remaining = 0
             /\ budgets[bud_result.subject_id].remaining_budget = 0
             /\ budgets[bud_result.subject_id].alert_level = "exhausted"
    /\ (bud_result.op = "check" /\ bud_result.query_cost = DEFAULT_EPSILON_BUDGET
           /\ bud_result.rolled.total_budget = DEFAULT_EPSILON_BUDGET
           /\ bud_result.rolled.remaining_budget = 0
           /\ bud_result.rolled.queries_count = 1)
          => /\ ~bud_result.allowed
             /\ bud_result.reason = "budget_exhausted"
             /\ bud_result.budget_remaining = 0
             /\ budgets[bud_result.subject_id].remaining_budget = 0
             /\ budgets[bud_result.subject_id].queries_count = 1

\* C16 as amended: the first call is allowed and leaves remaining 0.0 and
\* alert level critical; each further call is denied with the same reason,
\* decrements nothing and leaves the alert level exhausted.
C16_ScenarioCAsCoded ==
    /\ (bud_result.op = "check" /\ bud_result.query_cost = DEFAULT_EPSILON_BUDGET
           /\ bud_result.rolled.total_budget = DEFAULT_EPSILON_BUDGET
           /\ bud_result.rolled.remaining_budget = DEFAULT_EPSILON_BUDGET
           /\ bud_result.rolled.queries_count = 0)
          => /\ bud_result.allowed
             /\ bud_result.budget_remaining = 0
             /\ budgets[bud_result.subject_id].remaining_budget = 0
             /\ budgets[bud_result.subject_id].alert_level = "critical"
    /\ (bud_result.op = "check" /\ bud_result.query_cost = DEFAULT_EPSILON_BUDGET
           /\ bud_result.rolled.total_budget = DEFAULT_EPSILON_BUDGET
           /\ bud_result.rolled.remaining_budget = 0
           /\ bud_result.rolled.queries_count = 1)
          => /\ ~bud_result.allowed
             /\ bud_result.reason = "budget_exhausted"
             /\ bud_result.budget_remaining = 0
             /\ budgets[bud_result.subject_id].remaining_budget = 0
             /\ budgets[bud_result.subject_id].queries_count = 1
             /\ budgets[bud_result.subject_id].alert_level = "exhausted"

\* C16 witness: the third of three raw/high queries on a fresh default
\* account has been denied; the history shows allowed, denied, denied.
C16_Witness ==
    /\ bud_result.op = "check" /\ ~bud_result.allowed
    /\ bud_result.rolled.alert_level = "exhausted"
    /\ bud_result.rolled.total_budget = DEFAULT_EPSILON_BUDGET
    /\ LET h == HistoryOf(bud_result.subject_id)
       IN /\ Len(h) = 3
          /\ \A i \in 1 .. 3 : h[i].cost = DEFAULT_EPSILON_BUDGET
          /\ h[1].allowed /\ ~h[2].allowed /\ ~h[3].allowed
    /\ budgets[bud_result.subject_id].remaining_budget = 0
    /\ budgets[bud_result.subject_id].queries_count = 1
    /\ budgets[bud_result.subject_id].window_start = now

\* C17: after every allowed check_and_consume_budget the account's alert
\* level is the one the ratio remaining/total determines: critical below
\* 10%, warning below 30%, normal otherwise, whatever it was before.
C17_AlertLevelFollowsRatio ==
    (bud_result.op = "check" /\ bud_result.allowed)
      => LET b == budgets[bud_result.subject_id]
         IN b.alert_level =
                IF b.remaining_budget * 10 < b.total_budget THEN "critical"
                ELSE IF b.remaining_budget * 10 < 3 * b.total_budget
                THEN "warning"
                ELSE "normal"

\* C18: an account's window is reset (remaining = total, queries_count = 0,
\* alert level normal, window_start = time of the access) by an access to
\* that subject (check_and_consume_budget or get_budget_status) made when
\* more than 24h have passed since window_start, once, and at no other
\* moment: an access within the window rolls nothing, the passage of time
\* changes no account, and a call for another subject leaves it alone.
C18_WindowResetLazilyOnAccessOnly ==
    [][/\ now' # now => budgets' = budgets
       /\ \A s \in DOMAIN budgets :
              LET elapsed == now > budgets[s].window_start + Hours(24)
                  reset == [budgets[s] EXCEPT
                               !.remaining_budget = budgets[s].total_budget,
                               !.window_start = now,
                               !.queries_count = 0,
                               !.alert_level = "normal"]
                  accessed == /\ now' = now
                              /\ bud_result'.op \in {"check", "status"}
                              /\ bud_result'.subject_id = s
                              /\ bud_result'.reason # "requester_blocked"
                  replaced == /\ now' = now
                              /\ bud_result'.op = "set"
                              /\ bud_result'.subject_id = s
              IN /\ accessed
                    => /\ bud_result'.rolled = IF elapsed THEN reset ELSE budgets[s]
                       /\ budgets'[s].window_start = bud_result'.rolled.window_start
                       /\ bud_result'.op = "status"
                             => budgets'[s] = bud_result'.rolled
                 /\ (~accessed /\ ~replaced) => budgets'[s] = budgets[s]]_vars

\* C18 witness: an account that was charged and then left alone for more
\* than a window has been reset by a check, its window starting now.
C18_Witness ==
    /\ bud_result.op = "check"
    /\ bud_result.existed
    /\ now > Hours(24)
    /\ bud_result.rolled.window_start = now
    /\ bud_result.rolled.queries_count = 0
    /\ bud_result.rolled.remaining_budget = bud_result.rolled.total_budget
    /\ bud_result.rolled.last_query # NoTime
    /\ bud_result.rolled.last_query < now - Hours(24)

\* C19: while a requester's block is active (now <= blocked_until), every
\* check_and_consume_budget by that requester, for any subject, returns
\* allowed = false and neither creates, rolls nor charges the subject's
\* account; the block ends only by time: the first check by that requester
\* with now > blocked_until removes the entry and is processed normally.
C19_BlockActiveThroughBlockedUntil ==
    [][/\ \A r \in DOMAIN blocked_requesters :
              LET checked == /\ now' = now
                             /\ bud_result'.op = "check"
                             /\ bud_result'.requester_id = r
              IN /\ (checked /\ now <= blocked_requesters[r])
                    => /\ ~bud_result'.allowed
                       /\ bud_result'.reason = "requester_blocked"
                       /\ UNCHANGED <<budgets, blocked_requesters>>
                 /\ (checked /\ now > blocked_requesters[r])
                    => /\ r \notin DOMAIN blocked_requesters'
                       /\ bud_result'.reason \in {"consumed", "budget_exhausted"}
                       /\ bud_result'.subject_id \in DOMAIN budgets'
                 /\ r \notin DOMAIN blocked_requesters'
                    => (checked /\ now > blocked_requesters[r])
       /\ now' # now => blocked_requesters' = blocked_requesters]_vars

\* C19 as the code has it: the block is active while now < blocked_until;
\* every check by that requester is then denied and neither creates, rolls
\* nor charges the subject's account; the block ends only by time: the first
\* check by that requester with now >= blocked_until removes the entry and
\* is processed normally.
C19_BlockActiveBeforeBlockedUntil ==
    [][/\ \A r \in DOMAIN blocked_requesters :
              LET checked == /\ now' = now
                             /\ bud_result'.op = "check"
                             /\ bud_result'.requester_id = r
              IN /\ (checked /\ now < blocked_requesters[r])
                    => /\ ~bud_result'.allowed
                       /\ bud_result'.reason = "requester_blocked"
                       /\ UNCHANGED <<budgets, blocked_requesters>>
                 /\ (checked /\ now >= blocked_requesters[r])
                    => /\ r \notin DOMAIN blocked_requesters'
                       /\ bud_result'.reason \in {"consumed", "budget_exhausted"}
                       /\ bud_result'.subject_id \in DOMAIN budgets'
                 /\ r \notin DOMAIN blocked_requesters'
                    => (checked /\ now >= blocked_requesters[r])
       /\ now' # now => blocked_requesters' = blocked_requesters]_vars

\* C19 witness: half a day into a block, a check by the blocked requester
\* has been denied and the subject it asked about still has no account.
C19_Witness ==
    /\ bud_result.op = "check"
    /\ bud_result.reason = "requester_blocked"
    /\ ~bud_result.allowed
    /\ bud_result.requester_id \in DOMAIN blocked_requesters
    /\ now >= Hours(12)
    /\ now < blocked_requesters[bud_result.requester_id]
    /\ bud_result.subject_id \notin DOMAIN budgets

\* C20: every invocation of check_and_consume_budget, whether it ends
\* allowed, denied for lack of budget or denied because the requester is
\* blocked, appends exactly one entry to the queried subject's history.
C20_EveryCheckAppendsOneHistoryEntry ==
    [][(now' = now /\ bud_result'.op = "check")
       => LET s == bud_result'.subject_id
              h == IF s \in DOMAIN query_history' THEN query_history'[s] ELSE << >>
          IN /\ Len(h) = Len(HistoryOf(s)) + 1
             /\ SubSeq(h, 1, Len(h) - 1) = HistoryOf(s)
             /\ h[Len(h)].requester_id = bud_result'.requester_id
             /\ h[Len(h)].allowed = bud_result'.allowed]_vars

\* C21: set_custom_budget(subject, e, reset_hours = h) replaces the account
\* as a whole (total = remaining = e, counters zeroed, alert normal,
\* window_start = now), and the window of that account is h hours long: the
\* next lazy reset happens on the first access after h hours have elapsed
\* since the call, not after the default 24 hours.
C21_CustomBudgetHasCustomWindow ==
    [][/\ (now' = now /\ bud_result'.op = "set")
          => LET b == budgets'[bud_result'.subject_id]
             IN /\ b.remaining_budget = b.total_budget
                /\ b.queries_count = 0
                /\ b.last_query = NoTime
                /\ b.alert_level = "normal"
                /\ b.window_start = now
                /\ b.custom_reset_hours \in ResetHoursChoices
       /\ \A s \in DOMAIN budgets :
              LET h == budgets[s].custom_reset_hours
                  elapsed == now > budgets[s].window_start + Hours(h)
                  reset == [budgets[s] EXCEPT
                               !.remaining_budget = budgets[s].total_budget,
                               !.window_start = now,
                               !.queries_count = 0,
                               !.alert_level = "normal"]
              IN (/\ h # NoTime
                  /\ now' = now
                  /\ bud_result'.op \in {"check", "status"}
                  /\ bud_result'.subject_id = s
                  /\ bud_result'.reason # "requester_blocked")
                 => bud_result'.rolled = IF elapsed THEN reset ELSE budgets[s]]_vars

\* C22: in trigger_rtbf, whichever set of layer handlers raises, every one
\* of the eight registered layers ends with exactly one recorded status in
\* {completed, skipped, failed}: the layer of a raising handler is recorded
\* failed, every other in-scope handler is still invoked (and its layer
\* recorded completed), and a layer outside the request's scope is recorded
\* skipped without its handler being invoked.  Stated for every point of
\* the purge loop over the layers handled so far, and for the request
\* trigger_rtbf returns.
C22_FaultIsolationAcrossLayers ==
    /\ rtbf_call.pc = "purging"
       => LET handled == {LayerOrder[i] : i \in 1 .. (rtbf_call.next_layer - 1)}
              inScope(l) == \/ rtbf_call.scope = {}
                            \/ "all" \in rtbf_call.scope
                            \/ l \in rtbf_call.scope
          IN /\ DOMAIN rtbf_call.results = handled
             /\ rtbf_call.invoked = {l \in handled : inScope(l)}
             /\ \A l \in handled :
                    rtbf_call.results[l] =
                        IF ~inScope(l) THEN "skipped"
                        ELSE IF l \in rtbf_call.failing THEN "failed"
                        ELSE "completed"
    /\ \A i \in 1 .. Len(rtbf_result) :
           /\ DOMAIN rtbf_result[i].layer_status = Layers
           /\ \A l \in Layers :
                  rtbf_result[i].layer_status[l] \in {"completed", "skipped", "failed"}

\* C22 witness: the purge loop has finished with the handler of the second
\* layer having raised; the six handlers after it were invoked all the same.
C22_Witness ==
    /\ rtbf_call.pc = "purging"
    /\ rtbf_call.next_layer > Len(LayerOrder)
    /\ rtbf_call.scope = {"all"}
    /\ rtbf_call.failing = {"cache_layer"}
    /\ rtbf_call.invoked = Layers
    /\ rtbf_call.results["cache_layer"] = "failed"
    /\ rtbf_call.results["third_party_services"] = "completed"

\* C23: the status of the request returned by trigger_rtbf is computed over
\* the results of all eight layers and is completed iff every layer is
\* completed or skipped, failed iff at least one layer failed and none
\* completed, and partial otherwise; it is never pending or in_progress.
C23_OverallStatusFromAllLayers ==
    \A i \in 1 .. Len(rtbf_result) :
        LET r == rtbf_result[i]
            statuses == {r.layer_status[l] : l \in DOMAIN r.layer_status}
            allDone == statuses \subseteq {"completed", "skipped"}
            noneDone == "failed" \in statuses /\ "completed" \notin statuses
        IN /\ DOMAIN r.layer_status = Layers
           /\ r.status \in {"completed", "failed", "partial"}
           /\ r.status = "completed" <=> allDone
           /\ r.status = "failed" <=> noneDone
           /\ r.status = "partial" <=> (~allDone /\ ~noneDone)

\* C23 witness: a returned request in which one layer failed and the other
\* seven completed is partial.
C23_Witness ==
    /\ Len(rtbf_result) = 1
    /\ rtbf_result[1].status = "partial"
    /\ rtbf_result[1].layer_status["cache_layer"] = "failed"
    /\ rtbf_result[1].layer_status["primary_database"] = "completed"

C25_RequestIdsAreUnique ==
    [][/\ (rtbf_call.pc = "idle" /\ rtbf_call'.pc = "purging")
          => /\ rtbf_call'.request_id \notin DOMAIN active_requests
             /\ \A i \in 1 .. Len(purge_records) :
                    purge_records[i].request_id # rtbf_call'.request_id
       /\ \A i, j \in 1 .. Len(purge_records') :
              purge_records'[i].request_id = purge_records'[j].request_id
                  => i = j]_vars

\* C26: a request carrying an unknown enum value (role, purpose,
\* jurisdiction, sensitivity or query_type) is rejected before any state
\* mutation: after such a check_and_consume_budget call or such an enhanced
\* access-decision request, no budget account has been created or charged,
\* no counter has changed and no history entry has been appended.  Every
\* request of SpecValidation carries an unknown enum value.
C26_UnknownEnumMutatesNothing ==
    [][(now' = now /\ bud_result'.op = "check")
       => /\ budgets' = budgets
          /\ query_history' = query_history
          /\ ~bud_result'.allowed]_vars

\* C27: in a DENY verdict reached by evaluating the checks, the reason has
\* one entry for every failing check, in the fixed order policy, consent,
\* risk (then budget, compliance in the enhanced pipeline), and an entry
\* for no passing check: the reason of a later failing check is never
\* dropped because an earlier check failed.  (The RTBF short-circuit
\* evaluates no check and returns its fixed reason.)
C27_DenyReasonListsEveryFailingCheck ==
    (dec_result.decision = "DENY" /\ dec_result.evaluated # {})
    => LET failing(c) ==
               /\ c \in {"Policy", "Consent", "Risk"}
                  \/ (c = "Privacy Budget" /\ "budget" \in dec_result.evaluated)
                  \/ (c = "Legal" /\ "compliance" \in dec_result.evaluated)
               /\ CASE c = "Policy" -> ~dec_result.policy_allowed
                    [] c = "Consent" -> ~dec_result.has_consent
                    [] c = "Risk" -> dec_result.exceeds_threshold
                    [] c = "Privacy Budget" -> ~dec_result.budget_allowed
                    [] c = "Legal" -> ~dec_result.is_compliant
       IN dec_result.reason =
              SelectSeq(<<"Policy", "Consent", "Risk", "Privacy Budget", "Legal">>,
                        failing)

\* C27 witness: an enhanced DENY whose reason names the policy, the risk
\* and at least one further failing check.
C27_Witness ==
    /\ dec_result.pipeline = "enhanced"
    /\ dec_result.decision = "DENY"
    /\ dec_result.evaluated # {}
    /\ Len(dec_result.reason) >= 3
    /\ dec_result.reason[1] = "Policy"
    /\ \E i \in 2 .. Len(dec_result.reason) : dec_result.reason[i] = "Risk"
    /\ dec_result.reason[Len(dec_result.reason)] \in {"Privacy Budget", "Legal"}

\* C28: get_strictest_requirements is monotonic in its input set: for every
\* set J of jurisdictions (the empty set and sets containing GLOBAL
\* included) and every jurisdiction j, merging J \cup {j} gives a
\* strictness_score >= that of merging J, and every boolean requirement
\* that is true for J is still true for J \cup {j}.
C28_MergeMonotonic ==
    calc_call.fn = "get_strictest_requirements"
    => /\ calc_result[2].strictness_score >= calc_result[1].strictness_score
       /\ \A k \in BOOLEAN_REQUIREMENTS :
              calc_result[1].merged_requirements[k]
                  => calc_result[2].merged_requirements[k]

\* C28 for non-empty sets: for every non-empty set J of jurisdictions (sets
\* containing GLOBAL included) and every jurisdiction j, merging J \cup {j}
\* gives a strictness_score >= that of merging J, and every boolean
\* requirement that is true for J is still true for J \cup {j}.
C28_MergeMonotonicOnNonEmptySets ==
    (calc_call.fn = "get_strictest_requirements" /\ calc_call.J # {})
    => /\ calc_result[2].strictness_score >= calc_result[1].strictness_score
       /\ \A k \in BOOLEAN_REQUIREMENTS :
              calc_result[1].merged_requirements[k]
                  => calc_result[2].merged_requirements[k]

\* C28 witness: adding the EU to {US_CA} raises the score from 0.75 to 0.95
\* and turns consent_required on, and profiling_opt_out stays on.
C28_Witness ==
    /\ calc_call.fn = "get_strictest_requirements"
    /\ calc_call.J = {"US_CA"}
    /\ calc_call.j = "EU"
    /\ calc_result[1].strictness_score = 75
    /\ calc_result[2].strictness_score = 95
    /\ ~calc_result[1].merged_requirements["consent_required"]
    /\ calc_result[2].merged_requirements["consent_required"]
    /\ calc_result[1].merged_requirements["profiling_opt_out"]
    /\ calc_result[2].merged_requirements["profiling_opt_out"]

\* C29: masking is level-monotonic: for every field type and every pair of
\* masking levels L1 < L2 in the order none < light < moderate < heavy <
\* full, the strategy get_strategy_for_level chooses at L2 reveals no more
\* of the raw value than the strategy it chooses at L1.
C29_MaskingLevelMonotonic ==
    calc_call.fn = "get_strategy_for_level"
    => LET order == <<"none", "light", "moderate", "heavy", "full">>
           rank(l) == CHOOSE i \in 1 .. Len(order) : order[i] = l
       IN rank(calc_call.level1) < rank(calc_call.level2)
          => Exposure(calc_result[2]) <= Exposure(calc_result[1])

\* C30: evaluate_policy returns allowed = true iff all four checks pass
\* (role known, purpose in the role's allow-list, jurisdiction in the
\* role's allow-list, sensitivity a level not above the role's maximum in
\* the order low < medium < high); on denial the reported reason is that of
\* the first failing check and the flags of that check and of every later
\* check are false.  In particular role = external, purpose = reporting,
\* jurisdiction = US, sensitivity = high is denied for sensitivity
\* exceeding external's maximum.
C30_PolicyAllowsIffFourChecksPass ==
    calc_call.fn = "evaluate_policy"
    => LET c == calc_call
           r == calc_result
           order == <<"low", "medium", "high">>
           rank(l) == CHOOSE i \in 1 .. Len(order) : order[i] = l
           perms == RolePermissions(c.role)
           roleOk == c.role \in {"admin", "analyst", "external"}
           purposeOk == c.purpose \in perms.purposes
           jurisdictionOk == c.location \in perms.jurisdictions
           sensitivityOk == /\ c.data_sensitivity \in {"low", "medium", "high"}
                            /\ rank(c.data_sensitivity) <= rank(perms.max_sensitivity)
       IN /\ r.allowed <=> (roleOk /\ purposeOk /\ jurisdictionOk /\ sensitivityOk)
          /\ r.allowed => r.checks = PolicyChecks(TRUE, TRUE, TRUE, TRUE)
          /\ ~r.allowed
             => IF ~roleOk
                THEN /\ r.reason = "invalid_role"
                     /\ ~r.checks.role_valid /\ ~r.checks.purpose_allowed
                     /\ ~r.checks.jurisdiction_allowed
                     /\ ~r.checks.sensitivity_allowed
                ELSE IF ~purposeOk
                THEN /\ r.reason \in {"invalid_purpose", "purpose_not_allowed_for_role"}
                     /\ ~r.checks.purpose_allowed
                     /\ ~r.checks.jurisdiction_allowed
                     /\ ~r.checks.sensitivity_allowed
                ELSE IF ~jurisdictionOk
                THEN /\ r.reason \in {"invalid_jurisdiction",
                                      "jurisdiction_not_allowed_for_role"}
                     /\ ~r.checks.jurisdiction_allowed
                     /\ ~r.checks.sensitivity_allowed
                ELSE /\ r.reason \in {"invalid_sensitivity",
                                      "sensitivity_exceeds_maximum"}
                     /\ ~r.checks.sensitivity_allowed
          /\ (c.role = "external" /\ c.purpose = "reporting" /\ c.location = "US"
                 /\ c.data_sensitivity = "high")
             => (~r.allowed /\ r.reason = "sensitivity_exceeds_maximum")

\* C30 witness: Scenario A has been evaluated and denied for its
\* sensitivity, the three earlier checks having passed.
C30_Witness ==
    /\ calc_call.fn = "evaluate_policy"
    /\ calc_call.role = "external"
    /\ calc_call.purpose = "reporting"
    /\ calc_call.location = "US"
    /\ calc_call.data_sensitivity = "high"
    /\ ~calc_result.allowed
    /\ calc_result.reason = "sensitivity_exceeds_maximum"
    /\ calc_result.checks = PolicyChecks(TRUE, TRUE, TRUE, FALSE)

\* C31: over any sequence of grant_consent and revoke_consent calls,
\* check_consent(subject, purpose) returns has_consent = true iff a consent
\* record exists for the subject, it is not expired, and the purpose is in
\* the purpose list of the most recent grant to that subject: a grant
\* replaces the record of its subject by exactly its own purpose list and
\* touches no other subject, a revoke removes the record of its subject
\* and touches no other, a check changes no record, and a subject with no
\* record is denied for every purpose; a denial for a purpose outside the
\* list reports the granted purposes.
C31_ConsentFollowsMostRecentGrant ==
    [][/\ calc_call'.fn = "grant_consent"
          => LET s == calc_call'.requester_id
             IN /\ s \in DOMAIN consents'
                /\ consents'[s].purposes = calc_call'.purposes
                /\ consents'[s].expires_at = NoTime
                /\ \A u \in (DOMAIN consents \cup DOMAIN consents') \ {s} :
                       /\ u \in DOMAIN consents /\ u \in DOMAIN consents'
                       /\ consents'[u] = consents[u]
       /\ calc_call'.fn = "revoke_consent"
          => LET s == calc_call'.requester_id
             IN /\ s \notin DOMAIN consents'
                /\ \A u \in (DOMAIN consents \cup DOMAIN consents') \ {s} :
                       /\ u \in DOMAIN consents /\ u \in DOMAIN consents'
                       /\ consents'[u] = consents[u]
       /\ calc_call'.fn = "check_consent"
          => LET s == calc_call'.requester_id
                 exists == s \in DOMAIN consents
                 live == exists /\ (consents[s].expires_at = NoTime
                                       \/ now <= consents[s].expires_at)
             IN /\ consents' = consents
                /\ calc_result'.has_consent
                       <=> (live /\ calc_call'.purpose \in consents[s].purposes)
                /\ ~exists => (~calc_result'.has_consent
                                  /\ calc_result'.granted_purposes = {})
                /\ (live /\ ~calc_result'.has_consent)
                       => /\ calc_result'.reason = "purpose_not_granted"
                          /\ calc_result'.granted_purposes = consents[s].purposes]_vars

\* C31 witness: Scenario B.  user_123, seeded with three purposes, was
\* granted {analytics} anew; a check for marketing is denied and lists
\* exactly analytics.
C31_Witness ==
    /\ calc_call.fn = "check_consent"
    /\ calc_call.requester_id = "user_123"
    /\ calc_call.purpose = "marketing"
    /\ consents["user_123"].purposes = {"analytics"}
    /\ ~calc_result.has_consent
    /\ calc_result.reason = "purpose_not_granted"
    /\ calc_result.granted_purposes = {"analytics"}


\* C32: when several validate_and_consume calls on the same token run
\* concurrently, in every interleaving the number of calls answered
\* valid=true is at most the token's max_uses, and the current_uses of the
\* token never exceeds its max_uses.
C32_ConcurrentValidAnswersWithinMaxUses ==
    \A jwt \in issued_jwts :
        LET valid_answers == {c \in DOMAIN calls : /\ calls[c].status = "done"
                                                   /\ calls[c].token = jwt
                                                   /\ calls[c].response.valid}
        IN /\ Cardinality(valid_answers) <= jwt.max_uses
           /\ jwt.token_id \in DOMAIN active_tokens =>
                  active_tokens[jwt.token_id].current_uses <= jwt.max_uses

\* C32, for tokens issued with a max_uses of at least 0: the same bound
\* holds in every interleaving.
C32_HoldsForNonNegativeMaxUses ==
    \A jwt \in issued_jwts : jwt.max_uses >= 0 =>
        LET valid_answers == {c \in DOMAIN calls : /\ calls[c].status = "done"
                                                   /\ calls[c].token = jwt
                                                   /\ calls[c].response.valid}
        IN /\ Cardinality(valid_answers) <= jwt.max_uses
           /\ jwt.token_id \in DOMAIN active_tokens =>
                  active_tokens[jwt.token_id].current_uses <= jwt.max_uses

\* C32: more calls were accepted for one token than it has uses, all of
\* them have been answered, and exactly max_uses of them were valid.
C32_Witness ==
    \E jwt \in issued_jwts :
        LET mine == {c \in DOMAIN calls : calls[c].token = jwt}
        IN /\ jwt.max_uses >= 1
           /\ Cardinality(mine) > jwt.max_uses
           /\ \A c \in mine : calls[c].status = "done"
           /\ Cardinality({c \in mine : calls[c].response.valid}) = jwt.max_uses

\* C33: when several check_and_consume_budget calls for the same subject
\* run concurrently, in every interleaving remaining_budget is never below
\* 0, and the remaining budget equals the total minus the sum of the costs
\* of exactly the calls of the current window that were answered allowed.
C33_ConcurrentChecksNeverOverdraw ==
    \A s \in DOMAIN budgets :
        LET Charge(c) == IF /\ c \in DOMAIN calls
                            /\ calls[c].status = "done"
                            /\ calls[c].subject_id = s
                            /\ calls[c].response.allowed
                            /\ calls[c].response.at >= budgets[s].window_start
                         THEN calls[c].response.query_cost ELSE 0
            RECURSIVE Charged(_)
            Charged(n) == IF n = 0 THEN 0 ELSE Charge(n) + Charged(n - 1)
        IN /\ budgets[s].remaining_budget >= 0
           /\ budgets[s].remaining_budget =
                  budgets[s].total_budget - Charged(MaxConcurrent)

\* C33, as far as the calls themselves go: the remaining budget is the
\* total minus the costs of the allowed calls of the window, and it is
\* below 0 only while it is the untouched total of the account.
C33_ChargesAreExactAndNeverOverdraw ==
    \A s \in DOMAIN budgets :
        LET Charge(c) == IF /\ c \in DOMAIN calls
                            /\ calls[c].status = "done"
                            /\ calls[c].subject_id = s
                            /\ calls[c].response.allowed
                            /\ calls[c].response.at >= budgets[s].window_start
                         THEN calls[c].response.query_cost ELSE 0
            RECURSIVE Charged(_)
            Charged(n) == IF n = 0 THEN 0 ELSE Charge(n) + Charged(n - 1)
        IN /\ budgets[s].remaining_budget =
                  budgets[s].total_budget - Charged(MaxConcurrent)
           /\ \/ budgets[s].remaining_budget >= 0
              \/ budgets[s].remaining_budget = budgets[s].total_budget

\* C33: three calls for one subject were accepted together and all
\* answered; at least one was allowed and at least one denied for lack of
\* budget.
C33_Witness ==
    \E s \in DOMAIN budgets :
        LET mine == {c \in DOMAIN calls : calls[c].subject_id = s}
        IN /\ Cardinality(mine) = MaxConcurrent
           /\ \A c \in mine : calls[c].status = "done"
           /\ \E c \in mine : calls[c].response.allowed
           /\ \E c \in mine : ~calls[c].response.allowed
           /\ budgets[s].total_budget > 0

\* C34: a subject's query history never holds more than HISTORY_CAP (1000)
\* entries; an append that would exceed the cap drops the oldest entries,
\* so that the list is always the most recent logged attempts in arrival
\* order; and reading the history returns its tail and changes no list.
C34_HistoryKeepsMostRecentInOrder ==
    [][/\ \A s \in DOMAIN query_history' : Len(query_history'[s]) <= HISTORY_CAP
       /\ (bud_result'.op = "check" /\ calcVars' = calcVars) =>
              LET s == bud_result'.subject_id
                  old == HistoryOf(s)
                  new == query_history'[s]
              IN /\ Len(new) = Min(Len(old) + 1, HISTORY_CAP)
                 /\ new[Len(new)] =
                        [requester_id |-> bud_result'.requester_id,
                         cost |-> bud_result'.query_cost,
                         allowed |-> bud_result'.allowed]
                 /\ \A i \in 1 .. Len(new) - 1 :
                        new[i] = old[Len(old) + 1 - Len(new) + i]
                 /\ \A o \in DOMAIN query_history \ {s} :
                        query_history'[o] = query_history[o]
       /\ calcVars' # calcVars =>
              LET h == HistoryOf(calc_call'.subject_id)
                  r == calc_result'
              IN /\ query_history' = query_history
                 /\ Len(r) <= Len(h)
                 /\ \A i \in 1 .. Len(r) : r[i] = h[Len(h) - Len(r) + i]
                 /\ calc_call'.limit > 0 =>
                        Len(r) = Min(calc_call'.limit, Len(h))
      ]_vars

\* C34: a list holds HISTORY_CAP entries whose last two were appended after
\* the list had reached HISTORY_CAP - 1 entries or more, and it has been
\* read since.
C34_Witness ==
    \E s \in DOMAIN query_history :
        /\ Len(query_history[s]) = HISTORY_CAP
        /\ query_history[s][HISTORY_CAP].requester_id \in Requesters
        /\ query_history[s][HISTORY_CAP - 1].requester_id \in Requesters
        /\ query_history[s][1].requester_id = "analyst"
        /\ calc_call # NoCall
        /\ calc_call.subject_id = s

\* C35: determine_masking_level maps a risk score of [0, 1] to the level of
\* its band, [0,0.2) none, [0.2,0.4) light, [0.4,0.6) moderate, [0.6,0.8)
\* heavy, [0.8,1.0] full, each lower bound belonging to its band and 1.0
\* to full; and assess_risk sets exceeds_threshold only for a score
\* strictly above 0.7.
C35_BandsAndStrictThreshold ==
    /\ (/\ calc_call.fn = "determine_masking_level"
        /\ calc_call.risk_score \in 0 .. 1000) =>
           LET x == calc_call.risk_score
           IN calc_result = IF x < 200 THEN "none"
                            ELSE IF x < 400 THEN "light"
                            ELSE IF x < 600 THEN "moderate"
                            ELSE IF x < 800 THEN "heavy"
                            ELSE "full"
    /\ calc_call.fn = "assess_risk" =>
           /\ calc_result.exceeds_threshold => calc_result.risk_score > 700
           /\ calc_result.risk_score = 700 => ~calc_result.exceeds_threshold

\* C35: the score 0.2, on the edge between two bands, was given the level
\* light.
C35_Witness ==
    /\ calc_call.fn = "determine_masking_level"
    /\ calc_call.risk_score = 200
    /\ calc_result = "light"

\* C35: a request was scored exactly 0.7.
C35_ScoreAtThresholdReached ==
    /\ calc_call.fn = "assess_risk"
    /\ calc_result.risk_score = 700

\* C36: in the enhanced pipeline, for every request whose location is one
\* of the policy's jurisdictions (US, EU, UK, APAC, LATAM, GLOBAL) the
\* compliance check, given a request without consent_verified, reports the
\* blocking issue CONSENT_REQUIRED and is not compliant; and the enhanced
\* pipeline never returns ALLOW.
C36_EnhancedNeverAllows ==
    dec_result.pipeline = "enhanced" =>
        /\ dec_result.decision = "DENY"
        /\ dec_result.evaluated # {} =>
               LET request == audit_log[Len(audit_log)]
                   result == evaluate_compliance(request.purpose, FALSE,
                                                 request.location, "US")
               IN request.location \in VALID_JURISDICTIONS =>
                      /\ \E i \in 1 .. Len(result.compliance_issues) :
                             result.compliance_issues[i] = "CONSENT_REQUIRED"
                      /\ ~dec_result.is_compliant
                      /\ ~compliance_log[Len(compliance_log)].is_compliant

\* C36: a request from a policy jurisdiction passed policy, consent, risk
\* and budget and was denied on the compliance check alone.
C36_Witness ==
    /\ dec_result.pipeline = "enhanced"
    /\ dec_result.policy_allowed /\ dec_result.has_consent
    /\ ~dec_result.exceeds_threshold /\ dec_result.budget_allowed
    /\ ~dec_result.is_compliant
    /\ dec_result.decision = "DENY"
    /\ dec_result.reason = <<"Legal">>
    /\ audit_log[Len(audit_log)].location = "EU"

\* C37: an enhanced request whose requester_id is not RTBF-blocked performs
\* exactly one budget check-and-consume for that subject, whatever policy,
\* consent, risk and compliance return: one attempt is logged, and the
\* subject's remaining budget (after the lazy window roll) decreases by the
\* cost whenever the cost does not exceed it, also when the request is
\* denied by another check.
C37_EnhancedAlwaysChargesBudget ==
    [][(/\ dec_result'.pipeline = "enhanced"
        /\ decisions_returned' = decisions_returned + 1
        /\ dec_result'.requester_id \notin DOMAIN blocked_subjects)
       => LET s == dec_result'.requester_id
              r == bud_result'.rolled.remaining_budget
              c == bud_result'.query_cost
          IN /\ bud_result'.op = "check"
             /\ bud_result'.subject_id = s
             /\ Len(query_history'[s]) = Len(HistoryOf(s)) + 1
             /\ dec_result'.budget_allowed = (c <= r)
             /\ budgets'[s].remaining_budget = IF c <= r THEN r - c ELSE r
             /\ budgets'[s].queries_count =
                    bud_result'.rolled.queries_count + (IF c <= r THEN 1 ELSE 0)
             /\ \A o \in DOMAIN budgets \ {s} : budgets'[o] = budgets[o]
             /\ \A o \in DOMAIN query_history \ {s} :
                    query_history'[o] = query_history[o]]_vars

\* C37: an enhanced request that the policy check, the risk check and the
\* compliance check all fail was denied and has charged the subject's
\* budget.
C37_Witness ==
    /\ dec_result.pipeline = "enhanced"
    /\ dec_result.evaluated # {}
    /\ dec_result.decision = "DENY"
    /\ ~dec_result.policy_allowed
    /\ dec_result.exceeds_threshold
    /\ ~dec_result.is_compliant
    /\ dec_result.budget_allowed
    /\ bud_result.subject_id = dec_result.requester_id
    /\ budgets[dec_result.requester_id].remaining_budget
           = bud_result.rolled.remaining_budget - bud_result.query_cost
    /\ bud_result.query_cost > 0

\* C38: an enhanced request for an RTBF-blocked requester_id changes no
\* service state: the budget accounts (existence, remaining, counters), the
\* budget histories and the compliance log are the same after it as before.
C38_BlockedEnhancedRequestChangesNothing ==
    [][(/\ dec_result'.pipeline = "enhanced"
        /\ decisions_returned' = decisions_returned + 1
        /\ dec_result'.requester_id \in DOMAIN blocked_subjects)
       => /\ budgets' = budgets
          /\ query_history' = query_history
          /\ blocked_requesters' = blocked_requesters
          /\ compliance_log' = compliance_log
          /\ consents' = consents]_vars

\* C38: an enhanced request was short-circuited for a blocked subject whose
\* budget had been charged by an earlier request, logged in the compliance
\* log.
C38_Witness ==
    /\ dec_result.pipeline = "enhanced"
    /\ dec_result.in_blocked_set
    /\ dec_result.evaluated = {}
    /\ dec_result.requester_id \in DOMAIN budgets
    /\ budgets[dec_result.requester_id].queries_count >= 1
    /\ Len(compliance_log) >= 1
    /\ bud_result.subject_id = dec_result.requester_id

\* C39: with the threshold 0.7, for all role, purpose, jurisdiction and
\* sensitivity values a request whose risk score exceeds the threshold does
\* not pass the policy check, so that the basic verdict is ALLOW iff policy
\* and consent both pass.
C39_PolicyPassImpliesRiskWithinThreshold ==
    calc_call.fn = "request_data_access" =>
        /\ calc_result.risk.exceeds_threshold => ~calc_result.policy.allowed
        /\ calc_result.policy.allowed => calc_result.risk.risk_score <= 700
        /\ \A has_consent \in BOOLEAN :
               calc_result.final_decision[has_consent] = "ALLOW"
                   <=> (calc_result.policy.allowed /\ has_consent)

\* C39: the allowed request with the highest score, admin asking for
\* high-sensitivity data for marketing from GLOBAL, scores 0.63 and is
\* allowed with consent.
C39_Witness ==
    /\ calc_call.fn = "request_data_access"
    /\ calc_call.role = "admin" /\ calc_call.purpose = "marketing"
    /\ calc_call.location = "GLOBAL" /\ calc_call.data_sensitivity = "high"
    /\ calc_result.policy.allowed
    /\ calc_result.risk.risk_score = 630
    /\ ~calc_result.risk.exceeds_threshold
    /\ calc_result.final_decision[TRUE] = "ALLOW"

\* C40: a trigger_rtbf whose scope is non-empty and names neither "all" nor
\* a registered layer invokes no purge handler, records all eight layers as
\* skipped, ends completed and issues a certificate whose layers_purged
\* lists all eight layers; and the layers_purged of every certificate lists
\* every registered layer, skipped ones included.
C40_CertificateListsEveryLayer ==
    /\ (/\ rtbf_call.pc = "purging"
        /\ rtbf_call.scope # {}
        /\ rtbf_call.scope \cap (Layers \cup {"all"}) = {})
          => /\ rtbf_call.invoked = {}
             /\ \A l \in DOMAIN rtbf_call.results : rtbf_call.results[l] = "skipped"
    /\ \A i \in 1 .. Len(rtbf_result) :
           LET r == rtbf_result[i]
           IN (r.scope # {} /\ r.scope \cap (Layers \cup {"all"}) = {})
                 => /\ \A l \in Layers : r.layer_status[l] = "skipped"
                    /\ r.status = "completed"
                    /\ r.deletion_certificate # << >>
                    /\ r.deletion_certificate[1].layers_purged = LayerOrder
    /\ \A i \in 1 .. Len(purge_records) :
           LET cert == purge_records[i].deletion_certificate[1]
           IN /\ Len(cert.layers_purged) = Cardinality(Layers)
              /\ {cert.layers_purged[k] : k \in 1 .. Len(cert.layers_purged)} = Layers

\* C40: a request whose scope names only an unregistered layer has returned
\* completed, all eight layers skipped, with a certificate listing the eight
\* layers.
C40_Witness ==
    /\ Len(rtbf_result) = 1
    /\ rtbf_result[1].scope = {"no_such_layer"}
    /\ rtbf_result[1].status = "completed"
    /\ \A l \in Layers : rtbf_result[1].layer_status[l] = "skipped"
    /\ rtbf_result[1].deletion_certificate[1].layers_purged = LayerOrder
    /\ Len(purge_records) >= 1
====
